---- MODULE Spec2Model ----
(***************************************************************************)
(* State-machine model of the productivity widget: the Mission Engine      *)
(* (Missions.svelte), the blobs it shares with the other components in     *)
(* localStorage, the Dashboard wiring and the Pomodoro timer.              *)
(*                                                                         *)
(* Time is counted in slots; SlotsPerDay slots make one UTC day.  Dates    *)
(* are UTC day numbers (what toISOString().split("T")[0] yields), 0 being  *)
(* the empty date string.  The browser's time zone is an offset of whole   *)
(* slots, fixed for a run.                                                 *)
(***************************************************************************)
EXTENDS Integers, Sequences, FiniteSets, TLC

----------------------------------------------------------------------------
(* Bounds of the model *)

\* last slot the clock may reach (the clock starts at slot SlotsPerDay)
MaxNow == 4
\* debug point additions are possible while points stay below this
MaxPoints == 60
\* number of debug resets of the mission state explored
MaxDebugResets == 1
\* evaluations are explored while the perfect-day counter is at most this
MaxPerfect == 2
\* largest todo / habit count a signal carries
MaxTotal == 5
\* habit toggles are explored while every streak is at most this
MaxHabitStreak == 3
\* the same in the specification that follows one streak up to its last goal
MaxLongStreak == 30
\* ids the todo list hands out
MaxTodoId == 3
\* cap of the counters of timer completions
MaxDispatch == 2
\* habits are added while the list is shorter than this
MaxHabits == 6
\* last slot of the clock in the specifications that follow a streak over days
MaxStreakNow == 17

----------------------------------------------------------------------------
(* Dates and time zone *)

\* one day, in slots (the code divides by 1000 * 60 * 60 * 24 ms)
SlotsPerDay == 2

\* the empty date string ""
NoDate == 0

\* offsets of local time from UTC, in slots
TimeZones == {-1, 0, 1}

VARIABLES
    \* the Dashboard and the Pomodoro instance it mounts
    activeTab,      \* "todo", "habits", "missions" or "garden"
    pomodoro,       \* the fields of the mounted Pomodoro component
    dispatched,     \* history: "completed" events the timer dispatched
    delivered,      \* history: completePomodoro() calls the Dashboard made
    habits,         \* the habit list of the HabitTracker instance
    garden,         \* the fields of the Garden instance
    stGarden,       \* "todo-app-garden": <<>> or <<tiles>>
    todoList,       \* the TodoList instance: its items and nextId
    lastAlert,      \* history: text of the alert() of the last Garden operation, or ""
    now,            \* current instant, in slots
    tz,             \* local time = UTC + tz slots
    \* localStorage
    stMissions,     \* "todo-app-missions":   <<>> (absent) or <<flags>>
    stStats,        \* "todo-app-user-stats": <<>> or <<stats record>>
    stHabits,       \* "todo-app-habits":     <<>> or <<list of habits>>
    stTodos,        \* "todo-app-todos":      <<>> or <<list of todos>>
    stNextId,       \* "todo-app-next-id":    <<>> or <<number>>
    \* the Missions component instance
    mounted,        \* a Missions instance exists (missionsComponent is bound)
    missions,       \* mission id -> completed flag
    userStats,      \* the UserStats record
    perfectDaysCount,
    lastPerfectDay,
    debugMode,
    sweepPending,   \* the setTimeout(checkAllMissions, 1000) of onMount is pending
    stale,          \* <<>> or <<the in-memory state of an earlier instance whose timeout is pending>>
    \* history of the run (not program state)
    lastOp,         \* name of the last operation
    awardLog,       \* ids awarded by the last operation, in order
    awardCount,     \* reset=never id -> number of awards so far (capped at 2)
    periodAwards,   \* daily/weekly id -> awards since the last reset sweep (capped at 2)
    periodCalled,   \* daily/weekly ids completeMission was called with since then
    debugResets,    \* number of debug resets so far
    loginChain,     \* day index of the first-run login sequence (0: sequence left)
    perfectChain    \* consecutive days, up to the last one, with an all-habits-completed evaluation

engineVars == <<stMissions, stStats, mounted, missions, userStats,
                perfectDaysCount, lastPerfectDay, debugMode, sweepPending,
                stale>>
historyVars == <<lastOp, awardLog, awardCount, periodAwards,
                 periodCalled, debugResets, loginChain, perfectChain>>
tabVars == <<habits, garden, stGarden, lastAlert>>
appVars == <<activeTab, pomodoro, dispatched, delivered, tabVars>>
todoVars == <<todoList, stNextId>>
vars == <<now, tz, stHabits, stTodos, engineVars, historyVars, appVars, todoVars>>

\* new Date().toISOString().split("T")[0]: the UTC date of an instant
UtcDate(t) == t \div SlotsPerDay

\* the local calendar date of an instant (setHours(0,0,0,0) keeps only it)
LocalDate(t) == (t + tz) \div SlotsPerDay

\* new Date("YYYY-MM-DD"): a date-only string is parsed as UTC midnight
ParseDate(d) == d * SlotsPerDay

Today == UtcDate(now)

isConsecutiveDay(lastDate) ==
    IF lastDate = NoDate THEN FALSE
    ELSE LocalDate(now) - LocalDate(ParseDate(lastDate)) = 1

----------------------------------------------------------------------------
(* Optional values (a localStorage item is absent or holds a document) *)

Null == <<>>
Some(x) == <<x>>
IsNull(o) == o = <<>>
Get(o) == o[1]

Range(s) == {s[i] : i \in 1..Len(s)}
Includes(s, x) == x \in Range(s)
Min(a, b) == IF a < b THEN a ELSE b
Count(s, x) == Cardinality({i \in 1..Len(s) : s[i] = x})

----------------------------------------------------------------------------
(* The mission catalog (Missions.svelte, second script block) *)

Catalog ==
    [m \in {"complete-pomodoro", "complete-todos", "add-3-todos",
            "complete-3-habits", "habit-streak-3", "habit-streak-7",
            "habit-streak-30", "complete-all-habits", "login-streak",
            "create-5-habits", "daily-habit-week", "all-habits-week"} |->
        CASE m = "complete-pomodoro"   -> [points |-> 10,  reset |-> "daily"]
          [] m = "complete-todos"      -> [points |-> 15,  reset |-> "daily"]
          [] m = "add-3-todos"         -> [points |-> 5,   reset |-> "daily"]
          [] m = "complete-3-habits"   -> [points |-> 15,  reset |-> "daily"]
          [] m = "habit-streak-3"      -> [points |-> 20,  reset |-> "never"]
          [] m = "habit-streak-7"      -> [points |-> 30,  reset |-> "never"]
          [] m = "habit-streak-30"     -> [points |-> 100, reset |-> "never"]
          [] m = "complete-all-habits" -> [points |-> 25,  reset |-> "daily"]
          [] m = "login-streak"        -> [points |-> 25,  reset |-> "never"]
          [] m = "create-5-habits"     -> [points |-> 20,  reset |-> "never"]
          [] m = "daily-habit-week"    -> [points |-> 50,  reset |-> "never"]
          [] m = "all-habits-week"     -> [points |-> 75,  reset |-> "weekly"]]

MissionIds == DOMAIN Catalog
NeverIds == {m \in MissionIds : Catalog[m].reset = "never"}
PeriodicIds == {m \in MissionIds : Catalog[m].reset \in {"daily", "weekly"}}
DailyIds == {m \in MissionIds : Catalog[m].reset = "daily"}

\* an id that is in no catalog entry
UnknownId == "no-such-mission"

\* let missions = $state([... completed: false ...])
DefaultMissions == [m \in MissionIds |-> FALSE]

\* let userStats = $state({points: 0, streak: 0, lastLogin: "", ...})
DefaultStats ==
    [points |-> 0, streak |-> 0, lastLogin |-> NoDate, completedMissions |-> <<>>,
     perfectDaysCount |-> 0, lastPerfectDay |-> NoDate]

\* thresholds of the triggers
LoginStreakGoal == 5
PerfectWeekGoal == 7
AddedTodosGoal == 3
HabitsDoneGoal == 3
HabitCountGoal == 5
StreakGoalA == 3
StreakGoalB == 7
StreakGoalC == 30

----------------------------------------------------------------------------
(* The Mission Engine's functions, as functions of the engine state e:      *)
(* the component's variables, the two blobs it writes, and the log of the   *)
(* running handler.                                                         *)

\* the engine state at the start of a handler
Eng ==
    [missions |-> missions, userStats |-> userStats,
     perfectDaysCount |-> perfectDaysCount, lastPerfectDay |-> lastPerfectDay,
     stMissions |-> stMissions, stStats |-> stStats,
     awardLog |-> <<>>, callLog |-> <<>>, swept |-> FALSE, perfect |-> FALSE]

\* saveUserData that writes the stats blob only
saveUserData_StatsOnly(e) ==
    LET stats == [e.userStats EXCEPT !.perfectDaysCount = e.perfectDaysCount,
                                     !.lastPerfectDay = e.lastPerfectDay]
    IN [e EXCEPT !.userStats = stats,
                 !.stStats = Some(stats)]

saveUserData(e) ==
    LET stats == [e.userStats EXCEPT !.perfectDaysCount = e.perfectDaysCount,
                                     !.lastPerfectDay = e.lastPerfectDay]
    IN [e EXCEPT !.userStats = stats,
                 !.stMissions = Some(e.missions),
                 !.stStats = Some(stats)]

loadUserData(e) ==
    LET e1 == IF IsNull(e.stMissions) THEN e
              ELSE [e EXCEPT !.missions = Get(e.stMissions)]
    IN IF IsNull(e1.stStats) THEN e1
       ELSE [e1 EXCEPT !.userStats = Get(e.stStats),
                       !.perfectDaysCount = Get(e.stStats).perfectDaysCount,
                       !.lastPerfectDay = Get(e.stStats).lastPerfectDay]

isMissionCompleted(e, missionId) ==
    Includes(e.userStats.completedMissions, missionId)

\* completeMission without the ledger test of lines 612-616 (only the flag decides)
completeMission_FlagOnly(e, missionId) ==
    LET e0 == [e EXCEPT !.callLog = Append(@, missionId)]
    IN IF missionId \notin DOMAIN e.missions THEN e0
       ELSE IF e.missions[missionId] THEN e0
       ELSE saveUserData(
              [e0 EXCEPT
                 !.missions[missionId] = TRUE,
                 !.userStats.completedMissions =
                     IF Catalog[missionId].reset = "never"
                        /\ ~Includes(e.userStats.completedMissions, missionId)
                     THEN Append(@, missionId) ELSE @,
                 !.userStats.points = @ + Catalog[missionId].points,
                 !.awardLog = Append(@, missionId)])

\* completeMission without the lookup test of lines 607-610: an id that is
\* not in the list is recorded and saved like a one-time mission without points
completeMission_NoLookup(e, missionId) ==
    LET e0 == [e EXCEPT !.callLog = Append(@, missionId)]
    IN IF missionId \notin DOMAIN e.missions
       THEN saveUserData([e0 EXCEPT !.userStats.completedMissions =
                                       Append(@, missionId)])
       ELSE IF Catalog[missionId].reset = "never"
               /\ Includes(e.userStats.completedMissions, missionId) THEN e0
       ELSE IF e.missions[missionId] THEN e0
       ELSE saveUserData(
              [e0 EXCEPT
                 !.missions[missionId] = TRUE,
                 !.userStats.completedMissions =
                     IF Catalog[missionId].reset = "never"
                        /\ ~Includes(e.userStats.completedMissions, missionId)
                     THEN Append(@, missionId) ELSE @,
                 !.userStats.points = @ + Catalog[missionId].points,
                 !.awardLog = Append(@, missionId)])

completeMission(e, missionId) ==
    LET e0 == [e EXCEPT !.callLog = Append(@, missionId)]
    IN IF missionId \notin DOMAIN e.missions THEN e0
       ELSE IF Catalog[missionId].reset = "never"
               /\ Includes(e.userStats.completedMissions, missionId) THEN e0
       ELSE IF e.missions[missionId] THEN e0
       ELSE saveUserData(
              [e0 EXCEPT
                 !.missions[missionId] = TRUE,
                 !.userStats.completedMissions =
                     IF Catalog[missionId].reset = "never"
                        /\ ~Includes(e.userStats.completedMissions, missionId)
                     THEN Append(@, missionId) ELSE @,
                 !.userStats.points = @ + Catalog[missionId].points,
                 !.awardLog = Append(@, missionId)])

resetDailyMissions(e) ==
    [e EXCEPT !.missions = [m \in DOMAIN e.missions |->
                               IF Catalog[m].reset = "daily" THEN FALSE
                               ELSE e.missions[m]],
              !.swept = TRUE]

\* checkDailyLogin without the test of line 529: the transition also runs
\* when lastLogin is today
checkDailyLogin_NoGuard(e) ==
    LET e1 ==
          IF isConsecutiveDay(e.userStats.lastLogin) THEN
             LET e2 == [e EXCEPT !.userStats.streak = @ + 1]
             IN IF e2.userStats.streak >= LoginStreakGoal
                   /\ ~isMissionCompleted(e2, "login-streak")
                THEN completeMission(e2, "login-streak")
                ELSE e2
          ELSE IF e.userStats.lastLogin # NoDate THEN
             [e EXCEPT !.userStats.streak = 1,
                       !.perfectDaysCount =
                           IF ~isConsecutiveDay(e.lastPerfectDay) THEN 0 ELSE @]
          ELSE [e EXCEPT !.userStats.streak = 1]
        e3 == [e1 EXCEPT !.userStats.lastLogin = Today]
    IN saveUserData(resetDailyMissions(e3))

checkDailyLogin(e) ==
    IF e.userStats.lastLogin = Today THEN e
    ELSE
      LET e1 ==
            IF isConsecutiveDay(e.userStats.lastLogin) THEN
               LET e2 == [e EXCEPT !.userStats.streak = @ + 1]
               IN IF e2.userStats.streak >= LoginStreakGoal
                     /\ ~isMissionCompleted(e2, "login-streak")
                  THEN completeMission(e2, "login-streak")
                  ELSE e2
            ELSE IF e.userStats.lastLogin # NoDate THEN
               [e EXCEPT !.userStats.streak = 1,
                         !.perfectDaysCount =
                             IF ~isConsecutiveDay(e.lastPerfectDay) THEN 0 ELSE @]
            ELSE [e EXCEPT !.userStats.streak = 1]
          e3 == [e1 EXCEPT !.userStats.lastLogin = Today]
      IN saveUserData(resetDailyMissions(e3))

\* localStorage.getItem(HABITS_KEY) / getItem("todo-app-todos"), parsed
\* the habits blob read under a key nothing is stored under
getHabitsData_Absent == Null

getHabitsData == stHabits
getTodosData == stTodos

\* habits.some(pred), habits.filter(h => h.completed).length
SomeHabit(hs, P(_)) == \E i \in 1..Len(hs) : P(hs[i])
CompletedCount(xs) == Cardinality({i \in 1..Len(xs) : xs[i].completed})
MaxStreak(hs) ==
    CHOOSE n \in {hs[i].streak : i \in 1..Len(hs)} :
        \A i \in 1..Len(hs) : hs[i].streak <= n

HasStreak(h, n) == h.streak >= n
HasDailyStreak(h, n) == h.frequency = "daily" /\ h.streak >= n

completeIf(e, cond, missionId) ==
    IF cond THEN completeMission(e, missionId) ELSE e

checkHabitStreaks(e) ==
    IF IsNull(getHabitsData) THEN e
    ELSE
      LET hs == Get(getHabitsData)
          e1 == completeIf(e, SomeHabit(hs, LAMBDA h : HasStreak(h, StreakGoalA)),
                           "habit-streak-3")
          e2 == completeIf(e1, SomeHabit(hs, LAMBDA h : HasStreak(h, StreakGoalB)),
                           "habit-streak-7")
          e3 == completeIf(e2, SomeHabit(hs, LAMBDA h : HasStreak(h, StreakGoalC)),
                           "habit-streak-30")
      IN completeIf(e3, SomeHabit(hs, LAMBDA h : HasDailyStreak(h, StreakGoalB)),
                    "daily-habit-week")

checkHabitCount(e) ==
    completeIf(e, ~IsNull(getHabitsData) /\ Len(Get(getHabitsData)) >= HabitCountGoal,
               "create-5-habits")

checkLongestStreak(e) ==
    IF IsNull(getHabitsData) \/ Len(Get(getHabitsData)) = 0 THEN e
    ELSE
      LET maxStreak == MaxStreak(Get(getHabitsData))
          e1 == completeIf(e, maxStreak >= StreakGoalA, "habit-streak-3")
          e2 == completeIf(e1, maxStreak >= StreakGoalB, "habit-streak-7")
      IN completeIf(e2, maxStreak >= StreakGoalC, "habit-streak-30")

checkConsecutiveHabitCompletion(e) ==
    IF IsNull(getHabitsData) \/ Len(Get(getHabitsData)) = 0 THEN e
    ELSE completeIf(e, SomeHabit(Get(getHabitsData),
                                 LAMBDA h : HasDailyStreak(h, StreakGoalB)),
                    "daily-habit-week")

\* the perfect-day bookkeeping of checkHabitCompletion (lines 746-764)
perfectDayUpdate(e) ==
    LET e1 ==
          IF isConsecutiveDay(e.lastPerfectDay) \/ e.lastPerfectDay = NoDate THEN
             LET e2 == [e EXCEPT !.perfectDaysCount = @ + 1]
             IN completeIf(e2, e2.perfectDaysCount >= PerfectWeekGoal,
                           "all-habits-week")
          ELSE [e EXCEPT !.perfectDaysCount = 1]
    IN saveUserData([e1 EXCEPT !.lastPerfectDay = Today, !.perfect = TRUE])

\* checkHabitCompletion with the two tests chained by else-if
checkHabitCompletion_ElseIf(e, completed, total) ==
    LET e2 == IF completed >= HabitsDoneGoal
              THEN completeMission(e, "complete-3-habits")
              ELSE IF total > 0 /\ completed = total
              THEN perfectDayUpdate(completeMission(e, "complete-all-habits"))
              ELSE e
    IN checkHabitStreaks(e2)

checkHabitCompletion(e, completed, total) ==
    LET e1 == completeIf(e, completed >= HabitsDoneGoal, "complete-3-habits")
        e2 == IF total > 0 /\ completed = total
              THEN perfectDayUpdate(completeMission(e1, "complete-all-habits"))
              ELSE e1
    IN checkHabitStreaks(e2)

completePomodoro(e) == completeMission(e, "complete-pomodoro")

\* checkTodoCompletion without the total > 0 test
checkTodoCompletion_NoEmptyTest(e, completed, total) ==
    completeIf(e, completed = total, "complete-todos")

checkTodoCompletion(e, completed, total) ==
    completeIf(e, total > 0 /\ completed = total, "complete-todos")

checkAddedTodos(e, total) ==
    completeIf(e, total >= AddedTodosGoal, "add-3-todos")

\* checkAllMissions without the habit-count check
checkAllMissions_NoHabitCount(e) ==
    LET e1 == checkConsecutiveHabitCompletion(checkLongestStreak(e))
        e2 == IF IsNull(getHabitsData) THEN e1
              ELSE checkHabitCompletion(e1, CompletedCount(Get(getHabitsData)),
                                        Len(Get(getHabitsData)))
    IN IF IsNull(getTodosData) THEN e2
       ELSE checkAddedTodos(
              checkTodoCompletion(e2, CompletedCount(Get(getTodosData)),
                                  Len(Get(getTodosData))),
              Len(Get(getTodosData)))

checkAllMissions(e) ==
    LET e1 == checkConsecutiveHabitCompletion(checkLongestStreak(checkHabitCount(e)))
        e2 == IF IsNull(getHabitsData) THEN e1
              ELSE checkHabitCompletion(e1, CompletedCount(Get(getHabitsData)),
                                        Len(Get(getHabitsData)))
    IN IF IsNull(getTodosData) THEN e2
       ELSE checkAddedTodos(
              checkTodoCompletion(e2, CompletedCount(Get(getTodosData)),
                                  Len(Get(getTodosData))),
              Len(Get(getTodosData)))

addDebugPoints(e, amount) ==
    saveUserData([e EXCEPT !.userStats.points = @ + amount])

\* resetAllMissions if it cleared the flags and kept the ledger
resetAllMissions_KeepLedger(e) ==
    IF ~debugMode THEN e
    ELSE saveUserData([e EXCEPT !.missions = [m \in DOMAIN e.missions |-> FALSE],
                                !.swept = TRUE])

resetAllMissions(e) ==
    IF ~debugMode THEN e
    ELSE saveUserData([e EXCEPT !.missions = [m \in DOMAIN e.missions |-> FALSE],
                                !.userStats.completedMissions = <<>>,
                                !.swept = TRUE])

----------------------------------------------------------------------------
(* Snapshots the other components persist *)

Habit(f, c, s) == [frequency |-> f, completed |-> c, streak |-> s]
Todo(i, c) == [id |-> i, completed |-> c]

\* habit lists the habit tracker can have saved (saveHabits)
HabitSnapshots ==
    { <<>>,
      [i \in 1..5 |-> Habit("daily", TRUE, 1)],
      [i \in 1..5 |-> Habit("daily", i <= 3, IF i = 1 THEN 3 ELSE 1)],
      << Habit("daily", TRUE, 7) >>,
      << Habit("weekly", TRUE, 30), Habit("daily", FALSE, 2) >> }

\* todo lists the todo list can have saved (saveTodos)
TodoSnapshots ==
    { <<>>,
      << Todo(1, TRUE) >>,
      << Todo(1, TRUE), Todo(2, FALSE), Todo(3, TRUE) >>,
      << Todo(1, TRUE), Todo(2, TRUE), Todo(4, TRUE) >> }

DebugAmounts == {10, 50, 100}

----------------------------------------------------------------------------
(* Actions *)

\* what every run starts with: the clock on day 1, nothing mounted
----------------------------------------------------------------------------
(* The HabitTracker component (HabitTracker.svelte) *)

TrackedHabit(id, points) ==
    [id |-> id, frequency |-> "daily", completed |-> FALSE, streak |-> 0,
     lastCompleted |-> NoDate, pointsPerCompletion |-> points]

\* the initial value of habits
DefaultHabits ==
    << TrackedHabit("water", 5), TrackedHabit("exercise", 10),
       TrackedHabit("meditate", 8), TrackedHabit("read", 7),
       TrackedHabit("sleep", 8) >>

HabitIds == {DefaultHabits[i].id : i \in 1..Len(DefaultHabits)}

\* the tracker's view of the world: its list and the two blobs it writes
Tracker ==
    [habits |-> habits, stHabits |-> stHabits, stStats |-> stStats]

loadHabits(t) ==
    IF IsNull(t.stHabits) THEN t ELSE [t EXCEPT !.habits = Get(t.stHabits)]

saveHabits(t) == [t EXCEPT !.stHabits = Some(t.habits)]

resetDailyHabits(t) ==
    saveHabits([t EXCEPT !.habits =
        [i \in 1..Len(t.habits) |->
            IF t.habits[i].frequency = "daily"
            THEN [t.habits[i] EXCEPT !.completed = FALSE]
            ELSE t.habits[i]]])

checkDailyReset(t) ==
    LET resetNeeded ==
          \E i \in 1..Len(t.habits) :
             /\ t.habits[i].frequency = "daily"
             /\ t.habits[i].lastCompleted # NoDate
             /\ t.habits[i].lastCompleted # Today
    IN IF resetNeeded THEN resetDailyHabits(t) ELSE t

\* awardPoints if it created the blob when there is none
awardPoints_Create(t, points) ==
    IF IsNull(t.stStats)
    THEN [t EXCEPT !.stStats = Some([DefaultStats EXCEPT !.points = points])]
    ELSE [t EXCEPT !.stStats = Some([Get(t.stStats) EXCEPT !.points = @ + points])]

awardPoints(t, points) ==
    IF IsNull(t.stStats) THEN t
    ELSE [t EXCEPT !.stStats = Some([Get(t.stStats) EXCEPT !.points = @ + points])]

\* getPointsForFrequency
PointsForFrequency(frequency) == IF frequency = "daily" THEN 5 ELSE 10

\* the id addHabit builds from the name and the clock
AddedId == "added"

\* addHabit with a name: the new habit is appended and the list saved
addHabit(t, frequency) ==
    saveHabits([t EXCEPT !.habits =
        Append(t.habits,
               [id |-> AddedId, frequency |-> frequency, completed |-> FALSE,
                streak |-> 0, lastCompleted |-> NoDate,
                pointsPerCompletion |-> PointsForFrequency(frequency)])])

Max(a, b) == IF a >= b THEN a ELSE b

\* toggleHabit if un-completing a habit left its streak as it is
toggleHabit_KeepStreak(t, id) ==
    IF ~\E i \in 1..Len(t.habits) : t.habits[i].id = id THEN t
    ELSE
      LET k == CHOOSE i \in 1..Len(t.habits) : t.habits[i].id = id
          habit == t.habits[k]
      IN IF ~habit.completed
         THEN awardPoints(
                [t EXCEPT !.habits[k] =
                    [habit EXCEPT !.completed = TRUE,
                                  !.lastCompleted = Today,
                                  !.streak = habit.streak + 1]],
                habit.pointsPerCompletion)
         ELSE awardPoints(
                [t EXCEPT !.habits[k] = [habit EXCEPT !.completed = FALSE]],
                0 - habit.pointsPerCompletion)

\* toggleHabit up to its emitHabitStats(): the list is changed and the points
\* are applied, the list is not yet saved
toggleHabit(t, id) ==
    IF ~\E i \in 1..Len(t.habits) : t.habits[i].id = id THEN t
    ELSE
      LET k == CHOOSE i \in 1..Len(t.habits) : t.habits[i].id = id
          habit == t.habits[k]
      IN IF ~habit.completed
         THEN awardPoints(
                [t EXCEPT !.habits[k] =
                    [habit EXCEPT !.completed = TRUE,
                                  !.lastCompleted = Today,
                                  !.streak = habit.streak + 1]],
                habit.pointsPerCompletion)
         ELSE awardPoints(
                [t EXCEPT !.habits[k] =
                    [habit EXCEPT !.completed = FALSE,
                                  !.streak = Max(0, habit.streak - 1)]],
                0 - habit.pointsPerCompletion)

----------------------------------------------------------------------------
(* The TodoList component (unnamed/part_002) *)

\* let todoList = $state([]); let nextId = $state(1)
TodoInit == [items |-> <<>>, nextId |-> 1]

\* the list's view of the world: its fields and the two items it writes
Td ==
    [items |-> todoList.items, nextId |-> todoList.nextId,
     stTodos |-> stTodos, stNextId |-> stNextId]

loadTodos(d) ==
    LET d1 == IF IsNull(d.stTodos) THEN d ELSE [d EXCEPT !.items = Get(d.stTodos)]
    IN IF IsNull(d1.stNextId) THEN d1 ELSE [d1 EXCEPT !.nextId = Get(d.stNextId)]

\* saveTodos that does not write the next id
saveTodos_ListOnly(d) == [d EXCEPT !.stTodos = Some(d.items)]

saveTodos(d) == [d EXCEPT !.stTodos = Some(d.items), !.stNextId = Some(d.nextId)]

\* addTodo; hasText: the trimmed input is not empty
addTodo(d, hasText) ==
    IF ~hasText THEN d
    ELSE saveTodos([d EXCEPT !.items = Append(@, Todo(d.nextId, FALSE)),
                             !.nextId = @ + 1])

toggleCompleted(d, id) ==
    saveTodos([d EXCEPT !.items =
        [i \in 1..Len(d.items) |->
            IF d.items[i].id = id
            THEN [d.items[i] EXCEPT !.completed = ~@]
            ELSE d.items[i]]])

deleteTodo(d, id) ==
    saveTodos([d EXCEPT !.items = SelectSeq(@, LAMBDA t : t.id # id)])

\* editTodo; the text of a todo is not part of the state
editTodo(d, id, hasText) == IF ~hasText THEN d ELSE saveTodos(d)

----------------------------------------------------------------------------
(* The Garden component (Garden.svelte) *)

NumTiles == 16
TileIds == 0..(NumTiles - 1)
NoFlower == ""
NoTile == -1

\* availableFlowers: id -> cost
FlowerCost ==
    [f \in {"daisy", "tulip", "rose", "sunflower", "lotus", "cherry-blossom"} |->
        CASE f = "daisy" -> 10
          [] f = "tulip" -> 20
          [] f = "rose" -> 30
          [] f = "sunflower" -> 50
          [] f = "lotus" -> 75
          [] f = "cherry-blossom" -> 100]

EmptyTile == [flowerId |-> NoFlower, plantedDate |-> NoDate]

\* the initial fields of a Garden instance; refresh is TRUE while the
\* points-refresh interval is set, mountError once onMount has thrown
GardenInit ==
    [tiles |-> [i \in TileIds |-> EmptyTile],
     userPoints |-> 200,
     selectedFlower |-> NoFlower,
     isPlantingMode |-> FALSE,
     isRearrangeMode |-> FALSE,
     selectedTileForRearrange |-> NoTile,
     refresh |-> FALSE,
     mountError |-> FALSE]

\* onMount: setInterval(loadUserStats, 2000), and the cleanup it returns
startRefresh(g) == [g EXCEPT !.refresh = TRUE]
stopRefresh(g) == [g EXCEPT !.refresh = FALSE]

AlertNoPoints == "You don't have enough points to plant this flower!"
AlertOccupied == "This tile already has a flower! Choose an empty spot."
AlertNoFlower == "Please select a tile with a flower to move or remove."

\* the garden's view of the world: its fields, the two blobs it writes and
\* the alert of the running handler
Gw ==
    [g |-> garden, stStats |-> stStats, stGarden |-> stGarden, alert |-> ""]

\* a stored string JSON.parse throws on
Unparsable == <<"{", "{">>

\* JSON.parse is inside the try: a blob that does not parse is logged and the
\* garden keeps its value
loadGardenData(w) ==
    IF IsNull(w.stGarden) \/ w.stGarden = Unparsable THEN w
    ELSE [w EXCEPT !.g.tiles = Get(w.stGarden)]

loadUserStats(w) ==
    IF IsNull(w.stStats) THEN w
    ELSE [w EXCEPT !.g.userPoints = Get(w.stStats).points]

saveGardenData(w) == [w EXCEPT !.stGarden = Some(w.g.tiles)]

\* onMount: loadGardenData(); loadUserStats(); then the garden blob is parsed
\* again, outside any try, before the interval is set: on a blob that does
\* not parse the callback ends there with the SyntaxError
onMountGarden(w) ==
    LET w1 == loadUserStats(loadGardenData(w))
    IN IF w1.stGarden = Unparsable
       THEN [w1 EXCEPT !.g.mountError = TRUE]
       ELSE [w1 EXCEPT !.g = startRefresh(w1.g)]

updateUserPoints(w, pointsSpent) ==
    IF IsNull(w.stStats) THEN w
    ELSE LET stats == [Get(w.stStats) EXCEPT !.points = @ - pointsSpent]
         IN [w EXCEPT !.g.userPoints = stats.points, !.stStats = Some(stats)]

startPlanting(w, flowerId) ==
    LET w1 == [w EXCEPT !.g.isRearrangeMode = FALSE,
                        !.g.selectedTileForRearrange = NoTile]
    IN IF flowerId \in DOMAIN FlowerCost /\ w1.g.userPoints >= FlowerCost[flowerId]
       THEN [w1 EXCEPT !.g.selectedFlower = flowerId, !.g.isPlantingMode = TRUE]
       ELSE [w1 EXCEPT !.alert = AlertNoPoints]

\* plantFlower without the test for a flower already on the tile
plantFlower_NoEmptyCheck(w, tileId) ==
    IF w.g.selectedFlower = NoFlower \/ ~w.g.isPlantingMode THEN w
    ELSE IF w.g.userPoints >= FlowerCost[w.g.selectedFlower]
    THEN LET w1 == [w EXCEPT !.g.tiles[tileId] =
                        [flowerId |-> w.g.selectedFlower, plantedDate |-> now]]
             w2 == updateUserPoints(w1, FlowerCost[w.g.selectedFlower])
         IN saveGardenData([w2 EXCEPT !.g.isPlantingMode = FALSE,
                                      !.g.selectedFlower = NoFlower])
    ELSE w

plantFlower(w, tileId) ==
    IF w.g.selectedFlower = NoFlower \/ ~w.g.isPlantingMode THEN w
    ELSE IF w.g.tiles[tileId].flowerId # NoFlower
    THEN [w EXCEPT !.alert = AlertOccupied]
    ELSE IF w.g.userPoints >= FlowerCost[w.g.selectedFlower]
    THEN LET w1 == [w EXCEPT !.g.tiles[tileId] =
                        [flowerId |-> w.g.selectedFlower, plantedDate |-> now]]
             w2 == updateUserPoints(w1, FlowerCost[w.g.selectedFlower])
         IN saveGardenData([w2 EXCEPT !.g.isPlantingMode = FALSE,
                                      !.g.selectedFlower = NoFlower])
    ELSE w

cancelPlanting(w) ==
    [w EXCEPT !.g.isPlantingMode = FALSE, !.g.selectedFlower = NoFlower]

startRearrange(w) ==
    [w EXCEPT !.g.isPlantingMode = FALSE, !.g.selectedFlower = NoFlower,
              !.g.isRearrangeMode = TRUE, !.g.selectedTileForRearrange = NoTile]

cancelRearrange(w) ==
    [w EXCEPT !.g.isRearrangeMode = FALSE, !.g.selectedTileForRearrange = NoTile]

removeFlower(w, tileId) ==
    IF tileId = NoTile THEN w
    ELSE IF w.g.tiles[tileId].flowerId = NoFlower THEN w
    ELSE saveGardenData([w EXCEPT !.g.tiles[tileId] = EmptyTile,
                                  !.g.selectedTileForRearrange = NoTile])

\* handleTileClick if a move left the flower on its source tile as well
handleTileClick_MoveKeepsSource(w, tileId) ==
    IF w.g.isPlantingMode THEN plantFlower(w, tileId)
    ELSE IF ~w.g.isRearrangeMode THEN w
    ELSE
      LET src == w.g.selectedTileForRearrange
          tile == w.g.tiles[tileId]
          deselect == [w EXCEPT !.g.selectedTileForRearrange = NoTile]
      IN IF src = NoTile
         THEN IF tile.flowerId = NoFlower
              THEN [w EXCEPT !.alert = AlertNoFlower]
              ELSE [w EXCEPT !.g.selectedTileForRearrange = tileId]
         ELSE IF src = tileId THEN deselect
         ELSE IF w.g.tiles[src].flowerId = NoFlower THEN deselect
         ELSE IF tile.flowerId # NoFlower
         THEN saveGardenData([deselect EXCEPT !.g.tiles[src] = tile,
                                              !.g.tiles[tileId] = w.g.tiles[src]])
         ELSE saveGardenData([deselect EXCEPT !.g.tiles[tileId] = w.g.tiles[src]])

handleTileClick(w, tileId) ==
    IF w.g.isPlantingMode THEN plantFlower(w, tileId)
    ELSE IF ~w.g.isRearrangeMode THEN w
    ELSE
      LET src == w.g.selectedTileForRearrange
          tile == w.g.tiles[tileId]
          deselect == [w EXCEPT !.g.selectedTileForRearrange = NoTile]
      IN IF src = NoTile
         THEN IF tile.flowerId = NoFlower
              THEN [w EXCEPT !.alert = AlertNoFlower]
              ELSE [w EXCEPT !.g.selectedTileForRearrange = tileId]
         ELSE IF src = tileId THEN deselect
         ELSE IF w.g.tiles[src].flowerId = NoFlower THEN deselect
         ELSE IF tile.flowerId # NoFlower
         THEN saveGardenData([deselect EXCEPT !.g.tiles[src] = tile,
                                              !.g.tiles[tileId] = w.g.tiles[src]])
         ELSE saveGardenData([deselect EXCEPT !.g.tiles[src] = EmptyTile,
                                              !.g.tiles[tileId] = w.g.tiles[src]])

----------------------------------------------------------------------------
(* The Pomodoro component (Pomodoro.svelte) and the initial states *)

\* the Pomodoro component's initial fields; timer is TRUE while the countdown
\* interval is set
PomodoroInit ==
    [timeRemaining |-> 15, totalTime |-> 15, isRunning |-> FALSE,
     isCompleted |-> FALSE, timer |-> FALSE]

\* the preset buttons, in minutes
Durations == {25, 5, 15}
SecondsPerMinute == 60

\* stopTimer if it left the countdown interval set
stopTimer_KeepInterval(p) ==
    IF p.isRunning THEN [p EXCEPT !.isRunning = FALSE] ELSE p

stopTimer(p) ==
    IF p.isRunning THEN [p EXCEPT !.timer = FALSE, !.isRunning = FALSE] ELSE p

startTimer(p) ==
    LET p1 == IF ~p.isRunning
              THEN [p EXCEPT !.isRunning = TRUE, !.isCompleted = FALSE]
              ELSE p
    IN IF p1.isRunning THEN [p1 EXCEPT !.timer = TRUE] ELSE p1

resetTimer(p) ==
    [stopTimer(p) EXCEPT !.timeRemaining = p.totalTime, !.isCompleted = FALSE]

setTimerDuration(p, minutes) ==
    IF ~p.isRunning
    THEN [p EXCEPT !.timeRemaining = minutes * SecondsPerMinute,
                   !.totalTime = minutes * SecondsPerMinute,
                   !.isCompleted = FALSE]
    ELSE p

\* onDestroy that leaves the countdown interval set
onDestroy_NoClear(p) == p

\* onDestroy: clearInterval(timer)
onDestroy(p) == [p EXCEPT !.timer = FALSE]

\* what is left when the Pomodoro and the Garden of the tab shown are
\* destroyed: no instance, and the intervals their teardown did not clear
PomodoroGone == [PomodoroInit EXCEPT !.timer = onDestroy(pomodoro).timer]
GardenGone == [GardenInit EXCEPT !.refresh = stopRefresh(garden).refresh]

\* timerComplete(), up to its dispatch("completed")
timerComplete(p) == stopTimer([p EXCEPT !.isCompleted = TRUE])

InitCommon ==
    /\ now \in SlotsPerDay..(2 * SlotsPerDay - 1)
    /\ tz \in TimeZones
    /\ stHabits = Null /\ stTodos = Null
    /\ mounted = FALSE
    /\ missions = DefaultMissions
    /\ userStats = DefaultStats
    /\ perfectDaysCount = 0
    /\ lastPerfectDay = NoDate
    /\ debugMode = FALSE
    /\ sweepPending = FALSE
    /\ stale = Null
    /\ lastOp = "init"
    /\ awardLog = <<>>
    /\ awardCount = [m \in NeverIds |-> 0]
    /\ periodAwards = [m \in PeriodicIds |-> 0]
    /\ periodCalled = {}
    /\ debugResets = 0
    /\ activeTab = "todo"
    /\ pomodoro = PomodoroInit
    /\ dispatched = 0 /\ delivered = 0
    /\ habits = DefaultHabits
    /\ garden = GardenInit
    /\ todoList = TodoInit
    /\ stNextId = Null
    /\ stGarden = Null
    /\ lastAlert = ""
    /\ perfectChain = 0

\* first run: localStorage is empty
InitFirstRun ==
    /\ InitCommon
    /\ stMissions = Null /\ stStats = Null
    /\ loginChain = 0

\* the blobs of a user who opened the Missions tab on each of the last
\* LoginStreakGoal - 1 days, today included, and did nothing else
ReturningStats ==
    [DefaultStats EXCEPT !.streak = LoginStreakGoal - 1, !.lastLogin = 1]

InitReturning ==
    /\ InitCommon
    /\ stMissions = Some(DefaultMissions) /\ stStats = Some(ReturningStats)
    /\ loginChain = LoginStreakGoal - 1

Init == InitFirstRun \/ InitReturning

\* the handler named op has run and left the engine in state e
Apply(e, op) ==
    /\ missions' = e.missions
    /\ userStats' = e.userStats
    /\ perfectDaysCount' = e.perfectDaysCount
    /\ lastPerfectDay' = e.lastPerfectDay
    /\ stMissions' = e.stMissions
    /\ stStats' = e.stStats
    /\ lastOp' = op
    /\ awardLog' = e.awardLog
    /\ awardCount' = [m \in NeverIds |-> Min(2, awardCount[m] + Count(e.awardLog, m))]
    /\ periodAwards' = IF e.swept THEN [m \in PeriodicIds |-> 0]
                       ELSE [m \in PeriodicIds |->
                                Min(2, periodAwards[m] + Count(e.awardLog, m))]
    /\ periodCalled' = IF e.swept THEN {}
                       ELSE periodCalled \cup (Range(e.callLog) \cap PeriodicIds)
    /\ perfectChain' = IF ~e.perfect \/ lastPerfectDay = Today THEN perfectChain
                       ELSE IF lastPerfectDay # NoDate /\ lastPerfectDay = Today - 1
                       THEN perfectChain + 1
                       ELSE 1

PerfectGuard(limit) == perfectDaysCount <= limit

\* the day index of the login sequence that started at the first run
NextLoginChain(e) ==
    IF e.userStats.lastLogin = Today THEN loginChain
    ELSE IF e.userStats.lastLogin = NoDate THEN 1
    ELSE IF loginChain > 0 /\ Today - e.userStats.lastLogin = 1 THEN loginChain + 1
    ELSE 0

\* the in-memory state of the Missions instance
Memory ==
    [missions |-> missions, userStats |-> userStats,
     perfectDaysCount |-> perfectDaysCount, lastPerfectDay |-> lastPerfectDay]

\* onMount of a new Missions instance: loadUserData(); checkDailyLogin();
\* setTimeout(checkAllMissions, 1000); old is what becomes of an earlier
\* instance whose timeout is still pending
Mount(old) ==
    LET fresh == [Eng EXCEPT !.missions = DefaultMissions,
                             !.userStats = DefaultStats,
                             !.perfectDaysCount = 0,
                             !.lastPerfectDay = NoDate]
        loaded == loadUserData(fresh)
    IN /\ Apply(checkDailyLogin(loaded), "mount")
       /\ loginChain' = NextLoginChain(loaded)
       /\ mounted' = TRUE
       /\ debugMode' = FALSE
       /\ sweepPending' = TRUE
       /\ stale' = old
       /\ activeTab' = "missions"
       /\ pomodoro' = PomodoroGone
       /\ habits' = DefaultHabits
       /\ garden' = GardenGone
       /\ todoList' = TodoInit
       /\ UNCHANGED <<now, tz, stHabits, stTodos, debugResets, dispatched, delivered,
                      stGarden, lastAlert, stNextId>>

\* the Missions tab is opened; a timeout still pending from an instance left
\* before is not followed separately
MountMissions == Mount(stale)

\* the Missions tab is opened again within the second after an earlier
\* instance was created and left: that instance's timeout stays pending and
\* will work on the state it holds in memory
RemountMissions ==
    /\ ~mounted /\ sweepPending /\ IsNull(stale)
    /\ Mount(Some(Memory))

\* the mount-time timeout of the current instance fires; timeouts fire in the
\* order they were set
SweepTimeout(limit) ==
    /\ sweepPending /\ IsNull(stale) /\ PerfectGuard(limit)
    /\ Apply(checkAllMissions(Eng), "sweep")
    /\ sweepPending' = FALSE
    /\ UNCHANGED <<now, tz, appVars, stHabits, stTodos, mounted, debugMode, debugResets,
                   loginChain, stale,
                   todoList, stNextId>>

\* the timeout of the earlier instance fires: checkAllMissions on its own
\* in-memory state, saved over the blobs
StaleSweep(limit) ==
    /\ ~IsNull(stale) /\ Get(stale).perfectDaysCount <= limit
    /\ LET old == Get(stale)
           e == checkAllMissions(
                  [Eng EXCEPT !.missions = old.missions,
                              !.userStats = old.userStats,
                              !.perfectDaysCount = old.perfectDaysCount,
                              !.lastPerfectDay = old.lastPerfectDay])
       IN /\ stMissions' = e.stMissions
          /\ stStats' = e.stStats
          /\ awardLog' = e.awardLog
          /\ awardCount' = [m \in NeverIds |->
                               Min(2, awardCount[m] + Count(e.awardLog, m))]
    /\ stale' = Null
    /\ lastOp' = "staleSweep"
    /\ UNCHANGED <<now, tz, appVars, stHabits, stTodos, mounted, missions, userStats,
                   perfectDaysCount, lastPerfectDay, debugMode, sweepPending,
                   periodAwards, periodCalled, debugResets, loginChain, perfectChain,
                   todoList, stNextId>>

\* the "Check All Missions" button of the debug panel
DebugSweep(limit) ==
    /\ mounted /\ debugMode /\ PerfectGuard(limit)
    /\ Apply(checkAllMissions(Eng), "sweep")
    /\ UNCHANGED <<now, tz, appVars, stHabits, stTodos, mounted, debugMode, sweepPending, stale,
                   debugResets, loginChain,
                   todoList, stNextId>>

Signal(e, op) ==
    /\ mounted
    /\ Apply(e, op)
    /\ UNCHANGED <<now, tz, appVars, stHabits, stTodos, mounted, debugMode, sweepPending, stale,
                   debugResets, loginChain,
                   todoList, stNextId>>

CompletePomodoro == Signal(completePomodoro(Eng), "completePomodoro")

\* emitListUpdatedEvent -> handleTodoListUpdate: the counts of the persisted list
CheckTodoCompletion ==
    /\ ~IsNull(stTodos)
    /\ Signal(checkTodoCompletion(Eng, CompletedCount(Get(stTodos)), Len(Get(stTodos))),
              "checkTodoCompletion")

\* emitTodosAddedEvent -> handleTodosAdded
CheckAddedTodos ==
    /\ ~IsNull(stTodos)
    /\ Signal(checkAddedTodos(Eng, Len(Get(stTodos))), "checkAddedTodos")

\* emitHabitStats -> handleHabitStats
CheckHabitCompletion(limit) ==
    /\ ~IsNull(stHabits)
    /\ PerfectGuard(limit)
    /\ Signal(checkHabitCompletion(Eng, CompletedCount(Get(stHabits)), Len(Get(stHabits))),
              "checkHabitCompletion")

ToggleDebugMode ==
    /\ mounted
    /\ debugMode' = ~debugMode
    /\ lastOp' = "env" /\ awardLog' = <<>>
    /\ UNCHANGED <<now, tz, appVars, stHabits, stTodos, stMissions, stStats, mounted, missions,
                   userStats, perfectDaysCount, lastPerfectDay, sweepPending, stale,
                   awardCount, perfectChain, periodAwards, periodCalled, debugResets, loginChain,
                   todoList, stNextId>>

AddDebugPoints(amount) ==
    /\ mounted /\ debugMode
    /\ userStats.points + amount <= MaxPoints
    /\ Apply(addDebugPoints(Eng, amount), "addDebugPoints")
    /\ UNCHANGED <<now, tz, appVars, stHabits, stTodos, mounted, debugMode, sweepPending, stale,
                   debugResets, loginChain,
                   todoList, stNextId>>

ResetAllMissions ==
    /\ mounted /\ debugMode
    /\ debugResets < MaxDebugResets
    /\ Apply(resetAllMissions(Eng), "resetAllMissions")
    /\ debugResets' = debugResets + 1
    /\ UNCHANGED <<now, tz, appVars, stHabits, stTodos, mounted, debugMode, sweepPending, stale,
                   loginChain,
                   todoList, stNextId>>

AdvanceClock(limit) ==
    /\ now < limit
    /\ now' = now + 1
    /\ lastOp' = "env" /\ awardLog' = <<>>
    /\ UNCHANGED <<tz, appVars, stHabits, stTodos, engineVars, awardCount, perfectChain, periodAwards,
                   periodCalled, debugResets, loginChain,
                   todoList, stNextId>>

\* the habit tracker persists its list
SaveHabits(hs) ==
    /\ stHabits' = Some(hs)
    /\ IsNull(stHabits)
    /\ lastOp' = "env" /\ awardLog' = <<>>
    /\ UNCHANGED <<now, tz, appVars, stTodos, engineVars, awardCount, perfectChain, periodAwards,
                   periodCalled, debugResets, loginChain,
                   todoList, stNextId>>

\* the todo list persists its list
SaveTodos(ts) ==
    /\ stTodos' = Some(ts)
    /\ IsNull(stTodos)
    /\ lastOp' = "env" /\ awardLog' = <<>>
    /\ UNCHANGED <<now, tz, appVars, stHabits, engineVars, awardCount, perfectChain, periodAwards,
                   periodCalled, debugResets, loginChain,
                   todoList, stNextId>>

Next ==
    \/ MountMissions
    \/ SweepTimeout(MaxPerfect)
    \/ CompletePomodoro
    \/ CheckTodoCompletion
    \/ CheckAddedTodos
    \/ CheckHabitCompletion(MaxPerfect)
    \/ AdvanceClock(MaxNow)
    \/ \E hs \in HabitSnapshots : SaveHabits(hs)
    \/ \E ts \in TodoSnapshots : SaveTodos(ts)

Spec == Init /\ [][Next]_vars

\* The habit side of the engine in a browser whose local time is UTC, followed
\* over the days a perfect week takes.
InitUtc == InitFirstRun /\ tz = 0

NextWeek ==
    \/ MountMissions
    \/ SweepTimeout(PerfectWeekGoal)
    \/ CheckHabitCompletion(PerfectWeekGoal)
    \/ AdvanceClock(MaxStreakNow)
    \/ \E hs \in HabitSnapshots : SaveHabits(hs)

SpecWeekUtc == InitUtc /\ [][NextWeek]_vars

\* The sweeps of the engine, from the mount-time timeout and from the debug
\* panel's button, in every time zone.
NextSweep ==
    \/ MountMissions
    \/ SweepTimeout(PerfectWeekGoal)
    \/ ToggleDebugMode
    \/ DebugSweep(PerfectWeekGoal)
    \/ AdvanceClock(MaxNow)
    \/ \E hs \in HabitSnapshots : SaveHabits(hs)
    \/ \E ts \in TodoSnapshots : SaveTodos(ts)

SpecSweep == Init /\ [][NextSweep]_vars

\* The daily-login transition from the first run, over the days a login
\* streak takes.
NextLogin ==
    \/ MountMissions
    \/ SweepTimeout(MaxPerfect)
    \/ AdvanceClock(MaxStreakNow)

SpecLogin == InitFirstRun /\ [][NextLogin]_vars

----------------------------------------------------------------------------
(* The Dashboard: one tab's components are mounted at a time *)

\* switchToTodo / switchToHabits / switchToGarden: the Missions instance, if
\* any, is destroyed and missionsComponent becomes null; the new tab's
\* components are created and run their onMount; the components of the tab
\* that is left run their teardown
SwitchTab(tab) ==
    LET t == IF tab = "habits"
             THEN checkDailyReset(loadHabits([Tracker EXCEPT !.habits = DefaultHabits]))
             ELSE [Tracker EXCEPT !.habits = DefaultHabits]
        w == IF tab = "garden"
             THEN onMountGarden([Gw EXCEPT !.g = GardenInit])
             ELSE [Gw EXCEPT !.g = GardenInit]
    IN /\ tab # activeTab
       /\ activeTab' = tab
       /\ pomodoro' = PomodoroGone
       /\ todoList' = IF tab = "todo"
                      THEN LET d == loadTodos([Td EXCEPT !.items = TodoInit.items,
                                                         !.nextId = TodoInit.nextId])
                           IN [items |-> d.items, nextId |-> d.nextId]
                      ELSE TodoInit
       /\ habits' = t.habits
       /\ stHabits' = t.stHabits
       /\ garden' = IF tab = "garden" THEN w.g ELSE GardenGone
       /\ lastAlert' = ""
       /\ mounted' = FALSE
       /\ debugMode' = FALSE
       /\ lastOp' = IF pomodoro.timer \/ garden.refresh THEN "teardown" ELSE "switch"
       /\ awardLog' = <<>>
       /\ UNCHANGED <<now, tz, stTodos, stMissions, stStats, missions,
                      userStats, perfectDaysCount, lastPerfectDay, sweepPending, stale,
                      awardCount, perfectChain, periodAwards, periodCalled,
                      debugResets, loginChain, dispatched, delivered, stGarden,
                      stNextId>>

\* handleHabitStats of the Dashboard, on the "habitStats" event
handleHabitStats(e, completed, total) ==
    IF mounted THEN checkHabitCompletion(e, completed, total) ELSE e

\* a click on a habit's checkbox: toggleHabit(id), whose emitHabitStats()
\* runs before its saveHabits(); explored while streaks stay within limit
ToggleHabit(id, limit) ==
    LET t == toggleHabit(Tracker, id)
        e == handleHabitStats([Eng EXCEPT !.stStats = t.stStats],
                              CompletedCount(t.habits), Len(t.habits))
    IN /\ activeTab = "habits"
       /\ \A i \in 1..Len(t.habits) : t.habits[i].streak <= limit
       /\ Apply(e, "toggleHabit")
       /\ habits' = t.habits
       /\ stHabits' = saveHabits(t).stHabits
       /\ UNCHANGED <<now, tz, stTodos, mounted, debugMode, sweepPending, stale,
                      debugResets, loginChain, activeTab, pomodoro, dispatched,
                      delivered, garden, stGarden, lastAlert,
                   todoList, stNextId>>

\* the Add Habit form is submitted with a name and a frequency; its
\* emitHabitStats() finds no Missions instance while the habits tab is shown
AddHabit(frequency, limit) ==
    LET t == addHabit(Tracker, frequency)
    IN /\ activeTab = "habits"
       /\ Len(habits) < limit
       /\ habits' = t.habits
       /\ stHabits' = t.stHabits
       /\ lastOp' = "addHabit"
       /\ awardLog' = <<>>
       /\ UNCHANGED <<now, tz, stTodos, engineVars, awardCount, perfectChain,
                      periodAwards, periodCalled, debugResets, loginChain,
                      activeTab, pomodoro, dispatched, delivered, garden,
                      stGarden, lastAlert, todoVars>>

\* a handler of the Garden has run and left it in state w; the buttons work
\* while the Garden is shown, the refresh while its interval is set
GardenStep(w, op) ==
    /\ activeTab = "garden" \/ op = "loadUserStats"
    /\ garden' = w.g
    /\ stStats' = w.stStats
    /\ stGarden' = w.stGarden
    /\ lastAlert' = w.alert
    /\ lastOp' = op
    /\ awardLog' = <<>>
    /\ UNCHANGED <<now, tz, stHabits, stTodos, stMissions, mounted, missions,
                   userStats, perfectDaysCount, lastPerfectDay, debugMode,
                   sweepPending, stale, awardCount, perfectChain, periodAwards,
                   periodCalled, debugResets, loginChain, activeTab, pomodoro,
                   dispatched, delivered, habits,
                   todoList, stNextId>>

\* the flower shop is shown outside both modes; a flower's Plant button is
\* disabled unless canAffordFlower
StartPlanting(flowerId) ==
    /\ ~garden.isPlantingMode /\ ~garden.isRearrangeMode
    /\ garden.userPoints >= FlowerCost[flowerId]
    /\ GardenStep(startPlanting(Gw, flowerId), "startPlanting")

\* a tile's button is disabled outside both modes when the tile is empty
TileClick(tileId) ==
    /\ \/ garden.isPlantingMode
       \/ garden.isRearrangeMode
       \/ garden.tiles[tileId].flowerId # NoFlower
    /\ GardenStep(handleTileClick(Gw, tileId), "handleTileClick")

CancelPlanting ==
    /\ garden.isPlantingMode
    /\ GardenStep(cancelPlanting(Gw), "cancelPlanting")

StartRearrange ==
    /\ ~garden.isPlantingMode /\ ~garden.isRearrangeMode
    /\ GardenStep(startRearrange(Gw), "startRearrange")

CancelRearrange ==
    /\ ~garden.isPlantingMode /\ garden.isRearrangeMode
    /\ GardenStep(cancelRearrange(Gw), "cancelRearrange")

\* the Remove button, shown in rearrange mode once a tile is selected
RemoveFlower ==
    /\ ~garden.isPlantingMode /\ garden.isRearrangeMode
    /\ garden.selectedTileForRearrange # NoTile
    /\ GardenStep(removeFlower(Gw, garden.selectedTileForRearrange), "removeFlower")

\* the garden blob is replaced from outside the app (developer tools, a
\* truncated write) by a string that is not JSON
CorruptGarden ==
    /\ stGarden # Unparsable
    /\ stGarden' = Unparsable
    /\ lastOp' = "corruptGarden"
    /\ awardLog' = <<>>
    /\ UNCHANGED <<now, tz, stHabits, stTodos, engineVars, awardCount, perfectChain,
                   periodAwards, periodCalled, debugResets, loginChain,
                   activeTab, pomodoro, dispatched, delivered, habits, garden,
                   lastAlert, todoVars>>

\* the 2 s interval of onMount: loadUserStats()
RefreshPoints ==
    /\ garden.refresh
    /\ GardenStep([loadUserStats(Gw) EXCEPT !.alert = lastAlert], "loadUserStats")

\* a handler of the TodoList has run and left it in state d; its events find
\* no Missions instance while the todo tab is shown
TodoStep(d, op) ==
    /\ activeTab = "todo"
    /\ todoList' = [items |-> d.items, nextId |-> d.nextId]
    /\ stTodos' = d.stTodos
    /\ stNextId' = d.stNextId
    /\ lastOp' = op
    /\ awardLog' = <<>>
    /\ UNCHANGED <<now, tz, stHabits, engineVars, awardCount, perfectChain,
                   periodAwards, periodCalled, debugResets, loginChain,
                   appVars>>

\* the form is submitted, with or without text; ids are explored up to limit
AddTodo(hasText, limit) ==
    /\ todoList.nextId <= limit
    /\ TodoStep(addTodo(Td, hasText), "addTodo")

\* the checkbox, the delete button and the edit form of a todo that is shown
ToggleCompleted(id) ==
    /\ \E i \in 1..Len(todoList.items) : todoList.items[i].id = id
    /\ TodoStep(toggleCompleted(Td, id), "toggleCompleted")

DeleteTodo(id) ==
    /\ \E i \in 1..Len(todoList.items) : todoList.items[i].id = id
    /\ TodoStep(deleteTodo(Td, id), "deleteTodo")

EditTodo(id, hasText) ==
    /\ \E i \in 1..Len(todoList.items) : todoList.items[i].id = id
    /\ TodoStep(editTodo(Td, id, hasText), "editTodo")

PomodoroStep(p, op) ==
    /\ activeTab = "todo"
    /\ pomodoro' = p
    /\ lastOp' = op
    /\ awardLog' = <<>>
    /\ UNCHANGED <<now, tz, stHabits, stTodos, engineVars, awardCount, perfectChain,
                   periodAwards, periodCalled, debugResets, loginChain,
                   activeTab, dispatched, delivered, tabVars,
                   todoList, stNextId>>

\* the Start button, shown while the timer is not running
StartTimer ==
    /\ ~pomodoro.isRunning
    /\ PomodoroStep(startTimer(pomodoro), "startTimer")

\* the Pause button, shown while the timer is running
StopTimer ==
    /\ pomodoro.isRunning
    /\ PomodoroStep(stopTimer(pomodoro), "stopTimer")

ResetTimer == PomodoroStep(resetTimer(pomodoro), "resetTimer")

SetTimerDuration(minutes) ==
    PomodoroStep(setTimerDuration(pomodoro, minutes), "setTimerDuration")

\* the parts of the state a handler of the engine may write
awardVars == <<stMissions, stStats, missions, userStats, perfectDaysCount,
               lastPerfectDay, awardCount, perfectChain, periodAwards, periodCalled>>

\* handlePomodoroComplete of the Dashboard, on the "completed" event
handlePomodoroComplete ==
    IF mounted
    THEN /\ Apply(completePomodoro(Eng), "completePomodoro")
         /\ delivered' = Min(MaxDispatch, delivered + 1)
    ELSE /\ lastOp' = "completed"
         /\ awardLog' = <<>>
         /\ UNCHANGED <<awardVars, delivered>>

\* the countdown interval if it completed again at 0 instead of stopping
Tick_DispatchAtZero ==
    /\ pomodoro.timer
    /\ IF pomodoro.timeRemaining > 1
       THEN /\ pomodoro' = [pomodoro EXCEPT !.timeRemaining = @ - 1]
            /\ lastOp' = "tick"
            /\ awardLog' = <<>>
            /\ UNCHANGED <<awardVars, dispatched, delivered>>
       ELSE /\ pomodoro' = timerComplete([pomodoro EXCEPT !.timeRemaining = 0])
            /\ dispatched' = Min(MaxDispatch, dispatched + 1)
            /\ handlePomodoroComplete
    /\ UNCHANGED <<now, tz, stHabits, stTodos, mounted, debugMode, sweepPending, stale,
                   debugResets, loginChain, activeTab, tabVars,
                   todoList, stNextId>>

\* one firing of the countdown interval
Tick ==
    /\ pomodoro.timer
    /\ IF pomodoro.timeRemaining > 0
       THEN LET p == [pomodoro EXCEPT !.timeRemaining = @ - 1]
            IN IF p.timeRemaining = 0
               THEN /\ pomodoro' = timerComplete(p)
                    /\ dispatched' = Min(MaxDispatch, dispatched + 1)
                    /\ handlePomodoroComplete
               ELSE /\ pomodoro' = p
                    /\ lastOp' = "tick"
                    /\ awardLog' = <<>>
                    /\ UNCHANGED <<awardVars, dispatched, delivered>>
       ELSE /\ pomodoro' = stopTimer(pomodoro)
            /\ lastOp' = "tick"
            /\ awardLog' = <<>>
            /\ UNCHANGED <<awardVars, dispatched, delivered>>
    /\ UNCHANGED <<now, tz, stHabits, stTodos, mounted, debugMode, sweepPending, stale,
                   debugResets, loginChain, activeTab, tabVars,
                   todoList, stNextId>>

\* The running app as far as the focus timer and the Missions tab go.
NextApp ==
    \/ MountMissions
    \/ SweepTimeout(MaxPerfect)
    \/ \E tab \in {"todo", "habits", "garden"} : SwitchTab(tab)
    \/ StartTimer
    \/ StopTimer
    \/ ResetTimer
    \/ \E minutes \in Durations : SetTimerDuration(minutes)
    \/ Tick

SpecApp == InitFirstRun /\ [][NextApp]_vars

----------------------------------------------------------------------------
(* The habit tracker and the garden in the running app *)

\* the habits whose checkbox is clicked
ToggleIds == {"water", "exercise", "meditate"}
ToggleIdsA == {"water", "exercise"}
\* the flowers selected and the tiles clicked
FlowerChoices == {"daisy", "tulip"}
TileChoices == {0, 1}

\* Habit toggles over a day change, with the Missions tab and its mount-time
\* sweep.
NextHabits ==
    \/ MountMissions
    \/ SweepTimeout(MaxPerfect)
    \/ \E tab \in {"todo", "habits"} : SwitchTab(tab)
    \/ \E id \in ToggleIdsA : ToggleHabit(id, MaxHabitStreak)
    \/ AdvanceClock(MaxNow)

SpecHabits == InitUtc /\ [][NextHabits]_vars

\* the blobs of a user who earned 30 points on earlier days and opened the
\* Missions tab today
GardenStats == [ReturningStats EXCEPT !.points = 30]

InitGarden ==
    /\ InitCommon
    /\ tz = 0
    /\ \/ stMissions = Null /\ stStats = Null /\ loginChain = 0
       \/ /\ stMissions = Some(DefaultMissions)
          /\ stStats = Some(GardenStats)
          /\ loginChain = LoginStreakGoal - 1

\* The garden, from the first run and from a balance of 30 points.
NextGarden ==
    \/ MountMissions
    \/ SweepTimeout(MaxPerfect)
    \/ \E tab \in {"todo", "garden"} : SwitchTab(tab)
    \/ \E flowerId \in FlowerChoices : StartPlanting(flowerId)
    \/ \E tileId \in TileChoices : TileClick(tileId)
    \/ CancelPlanting
    \/ StartRearrange
    \/ CancelRearrange
    \/ RemoveFlower
    \/ RefreshPoints

SpecGarden == InitGarden /\ [][NextGarden]_vars

\* The garden while the habit tracker and the mount-time sweep of a Missions
\* instance that was left also write the points balance.
NextStale ==
    \/ MountMissions
    \/ SweepTimeout(MaxPerfect)
    \/ \E tab \in {"habits", "garden"} : SwitchTab(tab)
    \/ \E id \in ToggleIds : ToggleHabit(id, MaxHabitStreak)
    \/ StartPlanting("tulip")
    \/ TileClick(0)
    \/ RefreshPoints

SpecStale == InitUtc /\ [][NextStale]_vars

\* One habit's streak up to the last goal, with the Missions tab and its
\* mount-time sweep.  The clock is kept short: a streak outgrows the number of
\* days because checkDailyReset also clears a habit completed today when
\* another habit was last completed on an earlier day.
NextStreak ==
    \/ MountMissions
    \/ SweepTimeout(MaxPerfect)
    \/ SwitchTab("habits")
    \/ ToggleHabit("water", MaxLongStreak)
    \/ ToggleHabit("exercise", 1)
    \/ AdvanceClock(MaxNow)

SpecStreak == InitUtc /\ [][NextStreak]_vars

\* The two components with an interval, created and destroyed by tab changes.
NextTeardown ==
    \/ MountMissions
    \/ \E tab \in {"todo", "garden"} : SwitchTab(tab)
    \/ StartTimer
    \/ StopTimer
    \/ Tick
    \/ RefreshPoints

SpecTeardown == InitGarden /\ [][NextTeardown]_vars

\* The todo list across tab changes.
NextTodo ==
    \/ MountMissions
    \/ \E tab \in {"todo", "habits"} : SwitchTab(tab)
    \/ \E hasText \in BOOLEAN : AddTodo(hasText, MaxTodoId)
    \/ \E id \in 1..MaxTodoId : ToggleCompleted(id)
    \/ \E id \in 1..MaxTodoId : DeleteTodo(id)
    \/ \E id \in 1..MaxTodoId, hasText \in BOOLEAN : EditTodo(id, hasText)

SpecTodo == InitUtc /\ [][NextTodo]_vars

\* half a day passes; the one-second timeouts have fired long before
QuietClock ==
    /\ ~sweepPending /\ IsNull(stale)
    /\ AdvanceClock(MaxNow)

\* Two Missions instances created within a second of each other: the first
\* one's timeout fires while the second holds the state it loaded before.
NextRace ==
    \/ MountMissions
    \/ RemountMissions
    \/ StaleSweep(MaxPerfect)
    \/ SweepTimeout(MaxPerfect)
    \/ SwitchTab("habits")
    \/ \E id \in ToggleIdsA : ToggleHabit(id, MaxHabitStreak)
    \/ QuietClock

SpecRace == InitUtc /\ [][NextRace]_vars

\* The four persisted aggregates in one run: one todo, one habit over a day
\* change, two tiles of the garden, and the Missions tab with its login check.
NextFlush ==
    \/ MountMissions
    \/ \E tab \in {"todo", "habits", "garden"} : SwitchTab(tab)
    \/ AddTodo(TRUE, 1)
    \/ ToggleCompleted(1)
    \/ DeleteTodo(1)
    \/ EditTodo(1, TRUE)
    \/ ToggleHabit("water", 1)
    \/ StartPlanting("daisy")
    \/ \E tileId \in TileChoices : TileClick(tileId)
    \/ StartRearrange
    \/ RemoveFlower
    \/ AdvanceClock(MaxNow)

SpecFlush == InitGarden /\ [][NextFlush]_vars

\* The garden while its blob can be replaced by a string that does not parse.
NextCorrupt ==
    \/ MountMissions
    \/ \E tab \in {"todo", "garden"} : SwitchTab(tab)
    \/ CorruptGarden
    \/ \E flowerId \in FlowerChoices : StartPlanting(flowerId)
    \/ \E tileId \in TileChoices : TileClick(tileId)
    \/ CancelPlanting
    \/ RefreshPoints

SpecCorrupt == InitGarden /\ [][NextCorrupt]_vars

\* A weekly habit added to the list, over more than a week.
NextWeekly ==
    \/ \E tab \in {"todo", "habits"} : SwitchTab(tab)
    \/ AddHabit("weekly", MaxHabits)
    \/ ToggleHabit(AddedId, MaxHabitStreak)
    \/ AdvanceClock(MaxStreakNow)

SpecWeekly == InitUtc /\ [][NextWeekly]_vars

\* The ledger from the first run in a browser whose local time is UTC: sweeps,
\* the debug panel with its reset, and a second Missions instance created
\* while the first one's timeout is pending.
NextLedger ==
    \/ MountMissions
    \/ RemountMissions
    \/ StaleSweep(MaxPerfect)
    \/ SweepTimeout(MaxPerfect)
    \/ SwitchTab("todo")
    \/ ToggleDebugMode
    \/ DebugSweep(MaxPerfect)
    \/ ResetAllMissions
    \/ QuietClock
    \/ \E hs \in HabitSnapshots : SaveHabits(hs)

SpecLedger == InitUtc /\ [][NextLedger]_vars

\* The Pomodoro timer alone: its buttons, the countdown interval, and the tab
\* changes that destroy and recreate the component.
NextTimer ==
    \/ StartTimer
    \/ StopTimer
    \/ ResetTimer
    \/ \E minutes \in Durations : SetTimerDuration(minutes)
    \/ Tick
    \/ \E tab \in {"todo", "habits"} : SwitchTab(tab)

SpecTimer == InitUtc /\ [][NextTimer]_vars

\* setInterval keeps firing the countdown callback while the interval is set
SpecTimerFair == SpecTimer /\ WF_vars(Tick)

----------------------------------------------------------------------------
(* Claims *)

Ledger == Range(userStats.completedMissions)
PersistedHabits == IF IsNull(stHabits) THEN <<>> ELSE Get(stHabits)
PersistedTodos == IF IsNull(stTodos) THEN <<>> ELSE Get(stTodos)
HabitStreakAtLeast(n) == SomeHabit(PersistedHabits, LAMBDA h : HasStreak(h, n))

CallChangesNothing(m) ==
    LET e == completeMission(Eng, m)
    IN /\ e.missions = missions
       /\ e.userStats = userStats
       /\ e.stMissions = stMissions
       /\ e.stStats = stStats
       /\ e.awardLog = <<>>

\* C2: within one period (between two reset sweeps) the calls of completeMission
\* for a daily or weekly mission add its points exactly once, on the first
\* call, and every later call changes nothing.
C2_PeriodicOncePerPeriod ==
    \A m \in PeriodicIds :
      /\ periodAwards[m] <= 1
      /\ m \in periodCalled => periodAwards[m] = 1
      /\ periodAwards[m] = 1 => CallChangesNothing(m)

\* a mount whose daily-login transition takes the new-day branch and so runs
\* the reset sweep
ResetSweepStep ==
    /\ MountMissions
    /\ (IsNull(stStats) \/ Get(stStats).lastLogin # Today)

\* C3: after the reset sweep of a new-day login every daily and weekly mission
\* has completed = false, and an evaluation of it whose trigger holds (a call
\* of completeMission) awards its points again.
C3_ResetSweepReopens ==
    [][ResetSweepStep =>
         \A m \in PeriodicIds :
           /\ ~missions'[m]
           /\ completeMission(Eng', m).userStats.points
                 = userStats'.points + Catalog[m].points]_vars

\* the preconditions 2 and 3 of an award
Awardable(m) ==
    \/ Catalog[m].reset = "never" /\ m \notin Ledger
    \/ Catalog[m].reset \in {"daily", "weekly"} /\ ~missions[m]

\* C4: completeMission(id) for an awardable catalog mission sets its flag,
\* adds exactly its points, appends the id to the ledger iff reset = never,
\* leaves every other flag alone, and persists the new missions and stats.
C4_AwardEffect ==
    \A id \in MissionIds :
      Awardable(id) =>
        LET e == completeMission(Eng, id)
        IN /\ e.missions[id]
           /\ \A m \in MissionIds \ {id} : e.missions[m] = missions[m]
           /\ e.userStats.points = userStats.points + Catalog[id].points
           /\ e.userStats.completedMissions =
                 IF Catalog[id].reset = "never"
                 THEN Append(userStats.completedMissions, id)
                 ELSE userStats.completedMissions
           /\ e.stMissions = Some(e.missions)
           /\ e.stStats = Some(e.userStats)

\* a never-reset mission has just been awarded by a sweep and the blobs hold
\* the new state
C4_Witness ==
    /\ lastOp = "sweep"
    /\ "create-5-habits" \in Range(awardLog)
    /\ missions["create-5-habits"]
    /\ "create-5-habits" \in Ledger
    /\ stStats = Some(userStats)
    /\ stMissions = Some(missions)

\* the state a handler leaves, as the start of the next handler
Settled(e) ==
    [e EXCEPT !.awardLog = <<>>, !.callLog = <<>>, !.swept = FALSE, !.perfect = FALSE]

\* C5: a second checkAllMissions right after a first, on the same snapshots,
\* adds no points, appends nothing to the ledger and changes no flag.
C5_SweepIdempotent ==
    LET e1 == checkAllMissions(Eng)
        e2 == checkAllMissions(Settled(e1))
    IN /\ e2.userStats.points = e1.userStats.points
       /\ e2.userStats.completedMissions = e1.userStats.completedMissions
       /\ e2.missions = e1.missions

\* the triggers of the catalog, on the persisted snapshots
Trigger(m) ==
    LET hs == PersistedHabits
        ts == PersistedTodos
    IN CASE m = "complete-todos" -> Len(ts) > 0 /\ CompletedCount(ts) = Len(ts)
         [] m = "add-3-todos" -> Len(ts) >= 3
         [] m = "complete-3-habits" -> CompletedCount(hs) >= 3
         [] m = "complete-all-habits" -> Len(hs) > 0 /\ CompletedCount(hs) = Len(hs)
         [] m = "habit-streak-3" -> \E i \in 1..Len(hs) : hs[i].streak >= 3
         [] m = "habit-streak-7" -> \E i \in 1..Len(hs) : hs[i].streak >= 7
         [] m = "habit-streak-30" -> \E i \in 1..Len(hs) : hs[i].streak >= 30
         [] m = "daily-habit-week" ->
               \E i \in 1..Len(hs) : hs[i].frequency = "daily" /\ hs[i].streak >= 7
         [] m = "create-5-habits" -> Len(hs) >= 5
         [] OTHER -> FALSE

SweepTriggered == {m \in MissionIds : Awardable(m) /\ Trigger(m)}

\* C6 as stated: a sweep awards exactly the still-awardable missions whose
\* trigger (of the nine listed) holds on the persisted snapshots.
C6_SweepAwardsExactlyTriggered ==
    Range(checkAllMissions(Eng).awardLog) = SweepTriggered

\* the sweep's habit evaluation closes a perfect week
SweepClosesWeek ==
    /\ Trigger("complete-all-habits")
    /\ isConsecutiveDay(lastPerfectDay) \/ lastPerfectDay = NoDate
    /\ perfectDaysCount + 1 >= 7
    /\ Awardable("all-habits-week")

\* C6 amended: a sweep awards, each once, exactly the still-awardable missions
\* whose listed trigger holds on the persisted snapshots, and in addition
\* all-habits-week when all habits are completed and this evaluation raises
\* the perfect-day count to 7 or more.
C6_SweepAwards ==
    LET log == checkAllMissions(Eng).awardLog
    IN /\ Range(log) = SweepTriggered
                         \cup (IF SweepClosesWeek THEN {"all-habits-week"} ELSE {})
       /\ Len(log) = Cardinality(Range(log))

\* a sweep has just awarded several missions at once, a streak mission among them
C6_Witness ==
    /\ lastOp = "sweep"
    /\ {"habit-streak-7", "daily-habit-week", "complete-all-habits"} \subseteq Range(awardLog)
    /\ Trigger("habit-streak-7")

\* C7: in the running app, every time the focus timer reaches zero the signal
\* reaches the Mission Engine and complete-pomodoro is awarded if it was not
\* yet completed that day; no timer completion is dropped.
C7_TimerCompletionDelivered ==
    /\ delivered = dispatched
    /\ dispatched > 0 =>
         /\ ~IsNull(stMissions)
         /\ Get(stMissions)["complete-pomodoro"]

\* C8: from the first run, logging in on 5 consecutive days awards
\* login-streak (+25) on the 5th day, not earlier, exactly once, and never
\* again.
C8_LoginStreakOnDay5 ==
    /\ awardCount["login-streak"] <= 1
    /\ loginChain >= 5 => "login-streak" \in Ledger
    /\ loginChain \in 1..4 => "login-streak" \notin Ledger
    /\ userStats.points = IF "login-streak" \in Ledger THEN 25 ELSE 0

\* C9: checkTodoCompletion(completed, total) awards complete-todos (+15) iff
\* total > 0, completed = total and the mission is not yet completed in the
\* period; evaluating the same snapshot again awards nothing; total = 0 never
\* awards.
C9_TodoCompletion ==
    \A t \in 0..MaxTotal : \A c \in 0..t :
      LET e == checkTodoCompletion(Eng, c, t)
          again == checkTodoCompletion(Settled(e), c, t)
          fires == t > 0 /\ c = t /\ ~missions["complete-todos"]
      IN /\ e.awardLog = IF fires THEN <<"complete-todos">> ELSE <<>>
         /\ e.userStats.points = userStats.points + (IF fires THEN 15 ELSE 0)
         /\ again.awardLog = <<>>
         /\ again.userStats.points = e.userStats.points

\* the todos-changed signal of a fully completed list has just awarded the mission
C9_Witness ==
    /\ lastOp = "checkTodoCompletion"
    /\ awardLog = <<"complete-todos">>
    /\ Len(PersistedTodos) = 3 /\ CompletedCount(PersistedTodos) = 3

\* C10: with no habit streak >= 3, the perfect-day chain below 6 and neither
\* mission completed today, checkHabitCompletion(5, 5) awards complete-3-habits
\* and complete-all-habits and adds exactly 40 points.
C10_FiveOfFive ==
    ( /\ ~missions["complete-3-habits"]
      /\ ~missions["complete-all-habits"]
      /\ perfectDaysCount < 6
      /\ ~HabitStreakAtLeast(3) )
    => LET e == checkHabitCompletion(Eng, 5, 5)
       IN /\ e.awardLog = <<"complete-3-habits", "complete-all-habits">>
          /\ e.userStats.points = userStats.points + 40

\* the habits-changed signal of five completed habits has just awarded both
C10_Witness ==
    /\ lastOp = "checkHabitCompletion"
    /\ Len(PersistedHabits) = 5 /\ CompletedCount(PersistedHabits) = 5
    /\ awardLog = <<"complete-3-habits", "complete-all-habits">>
    /\ userStats.points >= 40

\* the streak missions and their goals
StreakGoal ==
    [m \in {"habit-streak-3", "habit-streak-7", "habit-streak-30"} |->
        CASE m = "habit-streak-3" -> 3
          [] m = "habit-streak-7" -> 7
          [] m = "habit-streak-30" -> 30]

C12_PerfectWeek ==
    /\ perfectChain >= 7 => missions["all-habits-week"]
    /\ "all-habits-week" \in Range(awardLog) => perfectChain >= 7

\* the points of the persisted user-stats blob, 0 while there is none
PersistedPoints == IF IsNull(stStats) THEN 0 ELSE Get(stStats).points

\* C13: the persisted points balance is a non-negative integer in every
\* reachable state.
C13_PointsNonNegative ==
    ~IsNull(stStats) => Get(stStats).points \in Nat

\* the steps of the todo, habits and garden tabs that are no handler of the
\* Mission Engine
TabOps ==
    {"toggleHabit", "startPlanting", "handleTileClick", "cancelPlanting",
     "startRearrange", "cancelRearrange", "removeFlower", "loadUserStats",
     "startTimer", "stopTimer", "resetTimer", "setTimerDuration", "tick",
     "completed", "switch", "teardown"}

\* C14 as stated: no step of the todo list, the habit tracker, the timer or
\* the garden changes the persisted user-stats blob (points and ledger).
C14_EngineOnlyWriter ==
    [][lastOp' \in TabOps => stStats' = stStats]_vars

\* C14, amended: such a step never creates the user-stats blob, changes no
\* field of it other than points, and leaves the missions blob alone; the
\* points are also written by the habit tracker and the garden.
C14_TabsWriteOnlyPoints ==
    [][lastOp' \in TabOps =>
          /\ stMissions' = stMissions
          /\ IsNull(stStats') = IsNull(stStats)
          /\ ~IsNull(stStats) =>
                [Get(stStats') EXCEPT !.points = Get(stStats).points] = Get(stStats)]_vars

C14_Witness ==
    /\ lastOp = "handleTileClick"
    /\ garden.tiles[0].flowerId = "tulip"
    /\ ~IsNull(stStats)
    /\ CompletedCount(PersistedHabits) > 0

\* C15: every habit's streak is a non-negative integer; a toggle changes one
\* habit, adds exactly 1 to its streak when it completes it and subtracts 1,
\* never going below 0, when it un-completes it.
C15_StreakStep ==
    [][/\ \A i \in 1..Len(habits') : habits'[i].streak \in Nat
       /\ lastOp' = "toggleHabit" =>
            \E k \in 1..Len(habits) :
               /\ Len(habits') = Len(habits)
               /\ \A j \in 1..Len(habits) : j # k => habits'[j] = habits[j]
               /\ habits'[k].completed # habits[k].completed
               /\ habits'[k].streak =
                     IF habits'[k].completed THEN habits[k].streak + 1
                     ELSE IF habits[k].streak > 0 THEN habits[k].streak - 1
                     ELSE 0]_vars

\* a habit completed today was un-completed and its streak is back at 0
C15_Witness ==
    /\ lastOp = "toggleHabit"
    /\ \E i \in 1..Len(habits) :
          /\ ~habits[i].completed
          /\ habits[i].streak = 0
          /\ habits[i].lastCompleted = Today
    /\ \E i \in 1..Len(habits) : habits[i].completed /\ habits[i].streak > 1

\* C16: a toggle changes the persisted points by exactly the habit's
\* pointsPerCompletion, up on completion and down on un-completion, from
\* every reachable state, also while no user-stats blob is persisted.
C16_TogglePoints ==
    [][lastOp' = "toggleHabit" =>
          \A k \in 1..Len(habits) :
             habits'[k] # habits[k] =>
               /\ ~IsNull(stStats')
               /\ PersistedPoints' = PersistedPoints +
                     (IF habits'[k].completed
                      THEN habits[k].pointsPerCompletion
                      ELSE 0 - habits[k].pointsPerCompletion)]_vars

\* C17: a tile click in planting mode while the selected flower costs more
\* than the garden's points leaves the persisted points and the tiles
\* unchanged and shows a rejection to the user.
C17_UnaffordableRejected ==
    [][(/\ lastOp' = "handleTileClick"
        /\ garden.isPlantingMode
        /\ garden.selectedFlower # NoFlower
        /\ garden.userPoints < FlowerCost[garden.selectedFlower]) =>
          /\ stStats' = stStats
          /\ stGarden' = stGarden
          /\ garden'.tiles = garden.tiles
          /\ lastAlert' # ""]_vars

\* C18: whenever a tile click in planting mode places a flower, the persisted
\* points before the step are at least the flower's cost and after it are
\* lower by exactly that cost.
C18_PlantingDeducts ==
    [][\A k \in TileIds :
          (/\ lastOp' = "handleTileClick"
           /\ garden.isPlantingMode
           /\ garden.tiles[k].flowerId = NoFlower
           /\ garden'.tiles[k].flowerId # NoFlower) =>
             /\ PersistedPoints >= FlowerCost[garden'.tiles[k].flowerId]
             /\ ~IsNull(stStats')
             /\ PersistedPoints' =
                   PersistedPoints - FlowerCost[garden'.tiles[k].flowerId]]_vars

\* the tiles of the persisted garden blob, all empty while there is none
PersistedTiles == IF IsNull(stGarden) THEN GardenInit.tiles ELSE Get(stGarden)

\* a click on tile k in planting mode is rejected and changes nothing
OccupiedRejected(k) ==
    LET w == handleTileClick(Gw, k)
    IN /\ w.alert = AlertOccupied
       /\ w.g = garden
       /\ w.stStats = stStats
       /\ w.stGarden = stGarden

\* a step that changes the flower or the date of an occupied tile is a tile
\* click in rearrange mode or removeFlower
OverwriteOnlyByRearrange ==
    \A k \in TileIds :
       (\/ /\ PersistedTiles[k].flowerId # NoFlower
            /\ PersistedTiles'[k] # PersistedTiles[k]
        \/ /\ lastOp' \notin {"switch", "teardown", "mount"}
            /\ garden.tiles[k].flowerId # NoFlower
            /\ garden'.tiles[k] # garden.tiles[k]) =>
         \/ lastOp' = "removeFlower"
         \/ lastOp' = "handleTileClick" /\ garden.isRearrangeMode

\* C19: in planting mode a click on an occupied tile is rejected: the tile
\* keeps its flower and date, no points are spent and the garden stays in
\* planting mode with the same flower selected; a planted flower is only
\* overwritten by a rearrange move or swap, or removed by removeFlower.
C19_OccupiedTileKept ==
    /\ [](\A k \in TileIds :
            (/\ activeTab = "garden"
             /\ garden.isPlantingMode
             /\ garden.tiles[k].flowerId # NoFlower) => OccupiedRejected(k))
    /\ [][OverwriteOnlyByRearrange]_vars

C19_Witness ==
    /\ lastOp = "handleTileClick"
    /\ lastAlert = AlertOccupied
    /\ garden.isPlantingMode
    /\ garden.selectedFlower = "tulip"
    /\ garden.tiles[0].flowerId = "daisy"

\* the steps in which the timer dispatches "completed"
CompletedOps == {"completePomodoro", "completed"}

\* C20: the timer dispatches "completed" exactly in the tick that takes
\* timeRemaining from 1 to 0; no step taken at 0 (Start in the completed
\* state, pause, further ticks) dispatches again, so a run signals once until
\* a reset or a new duration lets it run down again.
C20_CompletedOncePerRun ==
    [][/\ lastOp' \in CompletedOps <=>
            (pomodoro.timeRemaining = 1 /\ pomodoro'.timeRemaining = 0)
       /\ lastOp' \in CompletedOps =>
            (dispatched < MaxDispatch => dispatched' = dispatched + 1)
       /\ dispatched' # dispatched => lastOp' \in CompletedOps
       /\ (pomodoro.timeRemaining = 0 /\ pomodoro'.timeRemaining # 0) =>
            lastOp' \in {"resetTimer", "setTimerDuration", "switch",
                        "teardown", "mount"}]_vars

\* after its completion the timer was started again and has ticked at 0
C20_Witness ==
    /\ lastOp = "tick"
    /\ pomodoro.timeRemaining = 0
    /\ ~pomodoro.isCompleted
    /\ ~pomodoro.isRunning
    /\ dispatched = 1

\* the state of the timer as the component shows it: Pause is offered while
\* it runs, the completed look while isCompleted, Resume between 0 and
\* totalTime, Start otherwise
TimerState(p) ==
    IF p.isRunning THEN "Running"
    ELSE IF p.isCompleted THEN "Completed"
    ELSE IF p.timeRemaining = p.totalTime THEN "Idle"
    ELSE "Paused"

\* C21: setTimerDuration changes totalTime and timeRemaining only while the
\* timer is Idle; while it is Running, Paused or Completed it leaves
\* totalTime, timeRemaining and isCompleted unchanged.
C21_DurationOnlyWhenIdle ==
    [][(lastOp' = "setTimerDuration" /\ TimerState(pomodoro) # "Idle") =>
          /\ pomodoro'.totalTime = pomodoro.totalTime
          /\ pomodoro'.timeRemaining = pomodoro.timeRemaining
          /\ pomodoro'.isCompleted = pomodoro.isCompleted]_vars

\* C22: the timer leaves Idle only to Running, enters Completed only from
\* Running and leaves Completed only through reset (or the end of the
\* component instance).
C22_TimerTransitions ==
    [][lastOp' \notin {"switch", "teardown", "mount"} =>
          /\ (TimerState(pomodoro) = "Idle" /\ TimerState(pomodoro') # "Idle") =>
                TimerState(pomodoro') = "Running"
          /\ (TimerState(pomodoro) # "Completed" /\ TimerState(pomodoro') = "Completed") =>
                TimerState(pomodoro) = "Running"
          /\ (TimerState(pomodoro) = "Completed" /\ TimerState(pomodoro') # "Completed") =>
                lastOp' = "resetTimer"]_vars

\* C23: completeMission with an id that is not in the catalog changes
\* nothing: points, ledger, every mission's flag, the perfect-day tracking
\* and both persisted blobs stay as they are and nothing is awarded.
C23_UnknownIdNoOp ==
    LET e == completeMission(Eng, UnknownId)
    IN /\ CallChangesNothing(UnknownId)
       /\ e.perfectDaysCount = perfectDaysCount
       /\ e.lastPerfectDay = lastPerfectDay
       /\ e.callLog = <<UnknownId>>

\* the engine holds points and a ledger entry that differ from a fresh start
C23_Witness ==
    /\ mounted
    /\ ~IsNull(stStats) /\ ~IsNull(stMissions)
    /\ userStats.points > 0
    /\ Ledger # {}
    /\ \E m \in MissionIds : missions[m]
    /\ completeMission(Eng, UnknownId).callLog = <<UnknownId>>

\* C24: when lastLogin already is today, checkDailyLogin changes nothing
\* (streak, lastLogin, points, ledger, flags, perfect-day tracking, blobs),
\* and a load of the Missions component on such a day leaves both blobs as
\* they are.
C24_LoginIdempotent ==
    /\ [](userStats.lastLogin = Today => checkDailyLogin(Eng) = Eng)
    /\ [][(/\ lastOp' = "mount"
            /\ ~IsNull(stStats)
            /\ Get(stStats).lastLogin = Today) =>
              /\ stStats' = stStats
              /\ stMissions' = stMissions
              /\ userStats' = Get(stStats)
              /\ missions' = Get(stMissions)
              /\ awardLog' = <<>>]_vars

\* a second load on the day of a completed focus session: the daily flag is
\* still set after the mount
C24_Witness ==
    /\ lastOp = "mount"
    /\ userStats.lastLogin = Today
    /\ missions["complete-pomodoro"]
    /\ userStats.points > 0

\* lastLogin and streak as a load of the Missions component finds them
PriorLogin == IF IsNull(stStats) THEN NoDate ELSE Get(stStats).lastLogin
PriorStreak == IF IsNull(stStats) THEN 0 ELSE Get(stStats).streak

\* C25: a load on a day other than lastLogin sets lastLogin to today; the
\* streak grows by exactly 1 when lastLogin is the previous calendar day and
\* becomes 1 otherwise (first run, a gap of two or more days).
C25_LoginTransition ==
    [][(lastOp' = "mount" /\ PriorLogin # Today) =>
          /\ userStats'.lastLogin = Today
          /\ userStats'.streak =
                IF PriorLogin # NoDate /\ PriorLogin = Today - 1
                THEN PriorStreak + 1
                ELSE 1
          /\ stStats' = Some(userStats')]_vars

\* the ledger and the flags of the persisted blobs
PersistedLedger ==
    IF IsNull(stStats) THEN {} ELSE Range(Get(stStats).completedMissions)
PersistedFlags == IF IsNull(stMissions) THEN DefaultMissions ELSE Get(stMissions)

\* C26: outside the debug reset no step removes an id from the ledger or
\* clears the completed flag of a never-reset mission, in the persisted blobs
\* and in the memory of a living instance.
C26_LedgerAppendOnly ==
    [][lastOp' # "resetAllMissions" =>
          /\ PersistedLedger \subseteq PersistedLedger'
          /\ \A m \in NeverIds : PersistedFlags[m] => PersistedFlags'[m]
          /\ lastOp' # "mount" =>
                /\ Ledger \subseteq Range(userStats'.completedMissions)
                /\ \A m \in NeverIds : missions[m] => missions'[m]]_vars

\* C27: once the Pomodoro component is destroyed no tick changes
\* timeRemaining and none dispatches "completed"; once the Garden component
\* is destroyed its points refresh no longer runs: neither interval outlives
\* its component.
C27_NoCallbackAfterTeardown ==
    [][/\ activeTab' # "todo" => ~pomodoro'.timer
       /\ activeTab' # "garden" => ~garden'.refresh
       /\ lastOp' \in {"tick"} \cup CompletedOps => activeTab = "todo"
       /\ lastOp' = "loadUserStats" => activeTab = "garden"
       /\ (activeTab # "todo" /\ activeTab' # "todo") =>
             (pomodoro' = pomodoro /\ dispatched' = dispatched)]_vars

\* the Garden was opened while the countdown was running
C27_Witness ==
    /\ lastOp = "teardown"
    /\ activeTab = "garden"
    /\ garden.refresh
    /\ ~pomodoro.timer

\* the ids of a list are pairwise distinct and all below n
IdsUniqueBelow(items, n) ==
    /\ \A i, j \in 1..Len(items) : i # j => items[i].id # items[j].id
    /\ \A i \in 1..Len(items) : items[i].id \in 1..(n - 1)

\* C28: todo ids are sequential and unique: in memory and in storage all
\* ids of the list are distinct and strictly below nextId, an add appends a
\* todo with the current nextId and increments nextId, and the stored nextId
\* never decreases, so the id of a deleted todo is not handed out again.
C28_TodoIdsUnique ==
    /\ [](/\ IdsUniqueBelow(todoList.items, todoList.nextId)
          /\ ~IsNull(stTodos) =>
                (~IsNull(stNextId) /\ IdsUniqueBelow(Get(stTodos), Get(stNextId))))
    /\ [][/\ (lastOp' = "addTodo" /\ todoList' # todoList) =>
               /\ todoList'.items =
                     Append(todoList.items, Todo(todoList.nextId, FALSE))
               /\ todoList'.nextId = todoList.nextId + 1
          /\ ~IsNull(stNextId) =>
               (~IsNull(stNextId') /\ Get(stNextId') >= Get(stNextId))]_vars

\* todo 3 was just added after todo 2, then the last one, had been deleted
C28_Witness ==
    /\ lastOp = "addTodo"
    /\ Len(todoList.items) = 2
    /\ todoList.items[1].id = 1
    /\ todoList.items[2].id = 3
    /\ todoList.nextId = 4

----------------------------------------------------------------------------
\* what saveUserData serialises of the Missions instance
StatsSnapshot ==
    [userStats EXCEPT !.perfectDaysCount = perfectDaysCount,
                      !.lastPerfectDay = lastPerfectDay]

\* the state a component created now would load equals the state shown; for
\* the Missions tab, once the one-second timeouts have fired
ReloadRestores ==
    /\ activeTab = "todo" =>
          LET d == loadTodos([Td EXCEPT !.items = TodoInit.items,
                                        !.nextId = TodoInit.nextId])
          IN d.items = todoList.items /\ d.nextId = todoList.nextId
    /\ activeTab = "habits" =>
          loadHabits([Tracker EXCEPT !.habits = DefaultHabits]).habits = habits
    /\ activeTab = "garden" =>
          loadGardenData([Gw EXCEPT !.g = GardenInit]).g.tiles = garden.tiles
    /\ (mounted /\ ~sweepPending /\ IsNull(stale)) =>
          LET e == loadUserData([Eng EXCEPT !.missions = DefaultMissions,
                                            !.userStats = DefaultStats,
                                            !.perfectDaysCount = 0,
                                            !.lastPerfectDay = NoDate])
          IN /\ e.missions = missions
             /\ [e.userStats EXCEPT !.perfectDaysCount = e.perfectDaysCount,
                                    !.lastPerfectDay = e.lastPerfectDay]
                  = StatsSnapshot

\* C29: when a todo operation (add, toggle, delete, edit), a habit operation
\* (toggle, daily reset), a garden operation (plant, move, swap, remove) or a
\* mission operation (award, daily-login transition) has changed the state in
\* memory, the blob under that aggregate's key equals the state in memory
\* when the operation ends; at every quiescent point a reload restores the
\* state shown.
C29_FlushAfterEveryOperation ==
    /\ []ReloadRestores
    /\ [][/\ lastOp' \in {"addTodo", "toggleCompleted", "deleteTodo", "editTodo"} =>
                  \/ /\ stTodos' = Some(todoList'.items)
                     /\ stNextId' = Some(todoList'.nextId)
                  \/ UNCHANGED <<todoList, stTodos, stNextId>>
          /\ (activeTab' = "habits" /\ habits' # habits) =>
                  stHabits' = Some(habits')
          /\ (activeTab' = "garden" /\ activeTab = "garden"
                /\ garden'.tiles # garden.tiles) =>
                  stGarden' = Some(garden'.tiles)
          /\ \/ lastOp' = "mount" /\ PriorLogin # Today
             \/ lastOp' \in {"mount", "sweep"} /\ awardLog' # <<>>
             =>
                  /\ stMissions' = Some(missions')
                  /\ stStats' = Some(StatsSnapshot')
         ]_vars

----------------------------------------------------------------------------
\* C30: a garden blob that is missing or does not parse never makes a load
\* path fail uncaught: the Garden's onMount completes, and the garden shown
\* after the mount is the hard-coded empty one.
C30_BadBlobHandled ==
    /\ []~garden.mountError
    /\ [][(activeTab' = "garden" /\ activeTab # "garden"
            /\ (IsNull(stGarden) \/ stGarden = Unparsable)) =>
              /\ garden'.tiles = GardenInit.tiles
              /\ garden'.refresh
         ]_vars

----------------------------------------------------------------------------
\* the step is an evaluation of the habit counts (a habits-changed signal or
\* a sweep) that finds every persisted habit completed
PerfectEvaluation ==
    /\ lastOp' \in {"sweep", "checkHabitCompletion"}
    /\ ~IsNull(stHabits)
    /\ Len(Get(stHabits)) > 0
    /\ CompletedCount(Get(stHabits)) = Len(Get(stHabits))

\* C31: on a day where all habits are completed the first evaluation adds 1
\* to perfectDaysCount when lastPerfectDay is the previous day or empty and
\* sets it to 1 otherwise; a further evaluation on the same calendar day
\* leaves perfectDaysCount unchanged.
C31_PerfectDaysDistinct ==
    [][PerfectEvaluation =>
         perfectDaysCount' =
            IF lastPerfectDay = Today THEN perfectDaysCount
            ELSE IF lastPerfectDay = NoDate \/ lastPerfectDay = Today - 1
                 THEN perfectDaysCount + 1
                 ELSE 1
      ]_vars

----------------------------------------------------------------------------
\* C32: a daily habit completed today stays completed in the persisted list
\* for the rest of the day unless its own checkbox is clicked: mounting the
\* habit tracker again on the same day does not clear it, whatever the
\* last-completed dates of the other habits.
C32_CompletedTodayStays ==
    [][(~IsNull(stHabits) /\ Today' = Today /\ lastOp' # "toggleHabit") =>
         /\ ~IsNull(stHabits')
         /\ \A i \in 1..Len(Get(stHabits)) :
               (/\ Get(stHabits)[i].frequency = "daily"
                /\ Get(stHabits)[i].completed
                /\ Get(stHabits)[i].lastCompleted = Today) =>
                  Get(stHabits')[i].completed
      ]_vars

----------------------------------------------------------------------------
\* C33: when the habit tracker is mounted a week or more after a weekly
\* habit was completed, so that its period boundary has passed, the habit's
\* completed flag is false again.
C33_WeeklyHabitReset ==
    (activeTab = "habits" /\ lastOp \in {"switch", "teardown"}) =>
        \A i \in 1..Len(habits) :
           (/\ habits[i].frequency = "weekly"
            /\ habits[i].lastCompleted # NoDate
            /\ Today - habits[i].lastCompleted >= 7) =>
              ~habits[i].completed

----------------------------------------------------------------------------
\* C34: the evaluation triggered by a habit toggle reads the list the toggle
\* has saved: when the toggle raises the first streak to 3, habit-streak-3 is
\* in the persisted ledger when the toggle has ended.
C34_ToggleSignalSeesNewStreak ==
    [][(/\ lastOp' = "toggleHabit"
        /\ ~HabitStreakAtLeast(StreakGoalA)
        /\ HabitStreakAtLeast(StreakGoalA)') =>
          "habit-streak-3" \in PersistedLedger'
      ]_vars

----------------------------------------------------------------------------
\* the perfect-day count as a load of the Missions component finds it
PriorPerfectDays == IF IsNull(stStats) THEN 0 ELSE Get(stStats).perfectDaysCount

\* C35: a daily-login transition after a genuine gap (last login neither
\* empty nor the previous calendar day) resets the perfect-day count to 0; on
\* a first-ever run and on a login on the next calendar day the count is left
\* unchanged.
C35_GapResetsPerfectChain ==
    [][(lastOp' = "mount" /\ PriorLogin # Today) =>
         perfectDaysCount' =
            IF PriorLogin # NoDate /\ PriorLogin # Today - 1
            THEN 0
            ELSE PriorPerfectDays
      ]_vars

----------------------------------------------------------------------------
\* the points of the missions in an award log
RECURSIVE AwardSum(_)
AwardSum(log) ==
    IF log = <<>> THEN 0 ELSE Catalog[Head(log)].points + AwardSum(Tail(log))

\* the points a habit toggle of the step earns or takes back
ToggleDelta ==
    LET ks == {k \in 1..Len(habits) : habits'[k] # habits[k]}
    IN IF lastOp' # "toggleHabit" \/ ks = {} THEN 0
       ELSE LET k == CHOOSE k \in ks : TRUE
            IN IF habits'[k].completed
               THEN habits[k].pointsPerCompletion
               ELSE 0 - habits[k].pointsPerCompletion

\* the cost of the flower a tile click of the step plants
PlantCost ==
    LET ks == {k \in TileIds : /\ garden.tiles[k].flowerId = NoFlower
                               /\ garden'.tiles[k].flowerId # NoFlower}
    IN IF lastOp' # "handleTileClick" \/ ~garden.isPlantingMode \/ ks = {} THEN 0
       ELSE FlowerCost[garden'.tiles[CHOOSE k \in ks : TRUE].flowerId]

\* C36: once the user-stats blob exists no points update is lost: every step
\* changes the persisted balance by exactly the mission awards of the step
\* plus its habit completion or un-completion minus its garden spend, so a
\* save of the engine never overwrites a change the habit tracker or the
\* garden persisted after the engine loaded.
C36_NoLostPointsUpdate ==
    [][~IsNull(stStats) =>
         /\ ~IsNull(stStats')
         /\ PersistedPoints' =
               PersistedPoints + AwardSum(awardLog') + ToggleDelta - PlantCost
      ]_vars

----------------------------------------------------------------------------
\* a ledger without duplicates that holds exactly the never-reset missions
\* whose flag is set
LedgerMatchesFlags(ledger, flags) ==
    /\ \A i, j \in 1..Len(ledger) : i # j => ledger[i] # ledger[j]
    /\ Range(ledger) \subseteq NeverIds
    /\ \A m \in NeverIds : m \in Range(ledger) <=> flags[m]

\* C37: from the default state, in every reachable state the ledger has no
\* duplicate ids, holds only ids of reset = never missions, and holds the id
\* of a reset = never mission iff its completed flag is true; in the memory
\* of each Missions instance and in the persisted blobs.
C37_LedgerMatchesFlags ==
    /\ LedgerMatchesFlags(userStats.completedMissions, missions)
    /\ ~IsNull(stale) =>
          LedgerMatchesFlags(Get(stale).userStats.completedMissions,
                             Get(stale).missions)
    /\ ~IsNull(stStats) =>
          LedgerMatchesFlags(Get(stStats).completedMissions, PersistedFlags)

\* after a debug reset a sweep has awarded two never-reset missions again
C37_Witness ==
    /\ lastOp = "sweep"
    /\ debugResets = 1
    /\ Len(userStats.completedMissions) >= 2
    /\ Len(awardLog) >= 2
    /\ stStats = Some(StatsSnapshot)

----------------------------------------------------------------------------
\* C38: in every reachable timer state 0 <= timeRemaining <= totalTime,
\* isCompleted implies timeRemaining = 0 and not isRunning, and the countdown
\* interval is set iff isRunning; startTimer never sets an interval on top of
\* one that is set; pausing leaves timeRemaining unchanged and resuming
\* continues from the same value.
C38_TimerStateConsistent ==
    /\ [](/\ 0 <= pomodoro.timeRemaining
          /\ pomodoro.timeRemaining <= pomodoro.totalTime
          /\ pomodoro.isCompleted =>
                pomodoro.timeRemaining = 0 /\ ~pomodoro.isRunning
          /\ pomodoro.timer <=> pomodoro.isRunning)
    /\ [][/\ lastOp' = "startTimer" =>
               /\ ~pomodoro.timer
               /\ pomodoro'.timer
               /\ pomodoro'.timeRemaining = pomodoro.timeRemaining
          /\ lastOp' = "stopTimer" =>
               /\ ~pomodoro'.timer
               /\ pomodoro'.timeRemaining = pomodoro.timeRemaining
               /\ pomodoro'.totalTime = pomodoro.totalTime
         ]_vars

\* a timer paused part-way has been resumed
C38_Witness ==
    /\ lastOp = "startTimer"
    /\ pomodoro.isRunning /\ pomodoro.timer
    /\ 0 < pomodoro.timeRemaining
    /\ pomodoro.timeRemaining < pomodoro.totalTime

----------------------------------------------------------------------------
\* the Pause and Reset buttons and the destruction of the component
TimerInterrupts == {"stopTimer", "resetTimer", "switch", "teardown"}

\* C39: a started timer that is thereafter neither paused, reset nor
\* destroyed eventually reaches Completed, the countdown interval firing
\* for as long as it is set.
C39_StartedTimerCompletes ==
    pomodoro.isRunning ~>
        (TimerState(pomodoro) = "Completed" \/ lastOp \in TimerInterrupts)

----------------------------------------------------------------------------
\* the tiles that hold a flower
Planted(tiles) == {i \in DOMAIN tiles : tiles[i].flowerId # NoFlower}

\* the multiset of (flower, placement date) pairs over the tiles
FlowerBag(tiles) ==
    [pair \in {<<tiles[i].flowerId, tiles[i].plantedDate>> : i \in Planted(tiles)} |->
        Cardinality({i \in Planted(tiles) :
                        <<tiles[i].flowerId, tiles[i].plantedDate>> = pair})]

FlowerCount(tiles) == Cardinality(Planted(tiles))

\* a step of the Garden instance shown, which exists before and after it
GardenOps ==
    {"startPlanting", "handleTileClick", "cancelPlanting", "startRearrange",
     "cancelRearrange", "removeFlower", "loadUserStats"}

\* C40: the garden always has exactly 16 tiles with ids 0..15, in memory and
\* in its blob, and planting mode and rearrange mode are never active
\* together; a tile click in rearrange mode (select, deselect, move, swap)
\* preserves the multiset of (flower, placement date) pairs and leaves the
\* points balance unchanged; the number of planted flowers changes only by
\* +1 on a tile click in planting mode and by -1 on removeFlower.
C40_GardenRearrangePreserves ==
    /\ [](/\ DOMAIN garden.tiles = 0..15
          /\ Cardinality(DOMAIN garden.tiles) = NumTiles
          /\ DOMAIN PersistedTiles = DOMAIN garden.tiles
          /\ ~(garden.isPlantingMode /\ garden.isRearrangeMode))
    /\ [][/\ (lastOp' = "handleTileClick" /\ garden.isRearrangeMode) =>
               /\ FlowerBag(garden'.tiles) = FlowerBag(garden.tiles)
               /\ FlowerBag(PersistedTiles') = FlowerBag(PersistedTiles)
               /\ garden'.userPoints = garden.userPoints
               /\ stStats' = stStats
          /\ lastOp' \in GardenOps =>
               \/ FlowerCount(garden'.tiles) = FlowerCount(garden.tiles)
               \/ /\ FlowerCount(garden'.tiles) = FlowerCount(garden.tiles) + 1
                  /\ lastOp' = "handleTileClick" /\ garden.isPlantingMode
               \/ /\ FlowerCount(garden'.tiles) = FlowerCount(garden.tiles) - 1
                  /\ lastOp' = "removeFlower"
          /\ \/ FlowerCount(PersistedTiles') = FlowerCount(PersistedTiles)
             \/ /\ FlowerCount(PersistedTiles') = FlowerCount(PersistedTiles) + 1
                /\ lastOp' = "handleTileClick" /\ garden.isPlantingMode
             \/ /\ FlowerCount(PersistedTiles') = FlowerCount(PersistedTiles) - 1
                /\ lastOp' = "removeFlower"
         ]_vars

\* two different flowers stand on the first two tiles after a tile click
\* that ended a selection in rearrange mode, and the blob holds them
C40_Witness ==
    /\ lastOp = "handleTileClick"
    /\ garden.isRearrangeMode
    /\ garden.selectedTileForRearrange = NoTile
    /\ lastAlert = ""
    /\ garden.tiles[0].flowerId = "tulip"
    /\ garden.tiles[1].flowerId = "daisy"
    /\ stGarden = Some(garden.tiles)

====
